---------------------------- MODULE Spec2Model ----------------------------
(***************************************************************************)
(* Model of the news-balance backend: the ingestion cycle of               *)
(* src/filter_recent.py (LiveRotterScraper) and the four-stage             *)
(* classification batch of src/process_articles.py (ArticleProcessor),     *)
(* both working on the news_items table.                                   *)
(*                                                                         *)
(* Strings are modelled as sequences of one-character strings, so that     *)
(* concatenation, length and Python's substring test `in` are computed.    *)
(* Hebrew letters are written letter for letter in Latin letters.          *)
(***************************************************************************)
EXTENDS Integers, Sequences, FiniteSets, TLC

\* The number of links one listing page holds, at most.
MaxListing == 2

\* Identifiers of the scraper processes (one run of filter_recent.py each).
Scrapers == {1, 2}

\* Identifiers of the processor processes (one run of process_articles.py each).
Procs == {1, 2}

(***************************************************************************)
(* Timestamps.  A recovered datetime is <<t>>, t in seconds; "no datetime  *)
(* found" (None) is <<>>.  The wall clock stands still during a cycle.     *)
(***************************************************************************)
DaySeconds == 86400
Now == 3 * DaySeconds
NoTimestamp == <<>>

\* is_within_24_hours: `not article_datetime` is true of None only.
MutIsWithin24Hours(article_datetime) ==
    IF article_datetime = NoTimestamp THEN FALSE
    ELSE (Now - article_datetime[1]) <= DaySeconds + 1
IsWithin24Hours(article_datetime) ==
    IF article_datetime = NoTimestamp THEN FALSE
    ELSE (Now - article_datetime[1]) <= DaySeconds

(***************************************************************************)
(* Titles and urls.  generate_article_hash hashes the concatenation of     *)
(* title and url with no separator; md5 is taken to be injective on the    *)
(* concatenated text, so two pairs collide exactly when their              *)
(* concatenations are equal ("a"+"hha" = "ah"+"ha").                       *)
(***************************************************************************)
TitleA == <<"a">>
TitleAH == <<"a", "h">>
UrlHA == <<"h", "a">>
UrlHHA == <<"h", "h", "a">>

GenerateArticleHash(title, url) == title \o url

\* The rows of a listing page that pass the title and href filters, with
\* the datetime that extract_actual_datetime_from_row recovers from each.
ListingRows ==
    { [title |-> TitleA,  url |-> UrlHA,  dt |-> <<Now - 3600>>],
      [title |-> TitleA,  url |-> UrlHHA, dt |-> <<Now - DaySeconds>>],
      [title |-> TitleAH, url |-> UrlHA,  dt |-> <<Now - 7200>>],
      [title |-> TitleAH, url |-> UrlHHA, dt |-> <<Now - (DaySeconds + 1)>>],
      [title |-> TitleA,  url |-> UrlHA,  dt |-> NoTimestamp] }

Listings == UNION { [1..n -> ListingRows] : n \in 0..MaxListing }

\* What extract_datetime_from_article_page recovers from an article page.
PageDatetimes == { NoTimestamp, <<Now - 2 * DaySeconds>> }

\* What the extractor returns as content for a page that was fetched.
PageContents == { "", "body" }

(***************************************************************************)
(* The news_items table: a sequence of rows in insertion order (the id is  *)
(* the position, created_at grows with it).  process_data is a text: the   *)
(* empty text is <<>> and json.dumps(d) is <<d>>.                          *)
(***************************************************************************)
EmptyText == <<>>

NewRow(article_data, hash_id) ==
    [ title           |-> article_data.title,
      url             |-> article_data.url,
      actual_datetime |-> article_data.actual_datetime,
      content         |-> article_data.content,
      clean_content   |-> article_data.clean_content,
      hash_id         |-> hash_id,
      isProcessed     |-> 0,
      process_data    |-> EmptyText ]

Rows(db) == { db[i] : i \in 1..Len(db) }

\* is_article_exists: SELECT COUNT(*) ... WHERE hash_id = ?; an exception
\* (dbOk false) is caught and answered False.
IsArticleExists(db, hash_id, dbOk) ==
    IF dbOk THEN \E r \in Rows(db) : r.hash_id = hash_id ELSE FALSE

\* check_article_exists_in_db: by url first, then by title; an exception
\* (dbOk false) is caught and answered False.
MutCheckArticleExistsInDb(db, title, url, dbOk) ==
    IF ~dbOk THEN FALSE
    ELSE \E r \in Rows(db) : r.url = url
CheckArticleExistsInDb(db, title, url, dbOk) ==
    IF ~dbOk THEN FALSE
    ELSE IF \E r \in Rows(db) : r.url = url THEN TRUE
    ELSE \E r \in Rows(db) : r.title = title

\* The UNIQUE constraints of the table: url and hash_id.
MutViolatesUnique(db, row) == FALSE
ViolatesUnique(db, row) ==
    \E r \in Rows(db) : r.url = row.url \/ r.hash_id = row.hash_id

(***************************************************************************)
(* The sort of the returned batch: by the actual_datetime string,          *)
(* reverse=True.  Python's sort is stable, also when reversed.  An ISO     *)
(* string of a later time is the greater string; 'Unknown' (<<>> here)     *)
(* starts with 'U', which is greater than every digit.                     *)
(***************************************************************************)
MutKeyGreater(a, b) ==
    IF a = NoTimestamp THEN b # NoTimestamp
    ELSE IF b = NoTimestamp THEN FALSE
    ELSE a[1] < b[1]

KeyGreater(a, b) ==
    IF a = NoTimestamp THEN b # NoTimestamp
    ELSE IF b = NoTimestamp THEN FALSE
    ELSE a[1] > b[1]

RECURSIVE InsertDescending(_, _)
InsertDescending(sorted, e) ==
    IF sorted = <<>> THEN <<e>>
    ELSE IF KeyGreater(e.actual_datetime, Head(sorted).actual_datetime)
         THEN <<e>> \o sorted
         ELSE <<Head(sorted)>> \o InsertDescending(Tail(sorted), e)

RECURSIVE SortEvents(_)
SortEvents(evs) ==
    IF evs = <<>> THEN <<>>
    ELSE InsertDescending(SortEvents(SubSeq(evs, 1, Len(evs) - 1)), evs[Len(evs)])

(***************************************************************************)
(* State of the ingestion cycles.                                          *)
(***************************************************************************)
VARIABLES
    store,      \* the news_items table
    spc,        \* spc[s]: where scraper s stands in scrape_live_news
    listing,    \* listing[s]: the filtered rows of the listing page of the cycle
    recent,     \* recent[s]: recent_news_items
    idx,        \* idx[s]: the position of the loop over recent_news_items
    item,       \* item[s]: the item dictionary being worked on
    chk,        \* chk[s]: what the last check_article_exists_in_db returned
    lookup,     \* lookup[s]: whether the queries of that check ran ("ok") or
                \*   raised ("error")
    saved,      \* saved[s]: how the last save_article_to_db ended: "true"
                \*   (inserted, True), "exists" (found by hash, False) or
                \*   "error" (an exception was caught, False)
    events,     \* events[s]: events_with_content
    batch,      \* batch[s]: what the last scrape_live_news returned
    fetchLog,   \* fetchLog[s]: listing positions whose article page was requested
    insertLog,  \* insertLog[s]: listing positions whose row this cycle inserted
    attempts    \* attempts[s]: the requests of the listing page made in the
                \*   cycle, in order: TRUE for one that succeeded

ingestVars == <<store, spc, listing, recent, idx, item, chk, lookup, saved, events,
                batch, fetchLog, insertLog, attempts>>

\* State of the classification batches.
VARIABLES
    ppc,        \* ppc[p]: where processor p stands in process_articles
    articles,   \* articles[p]: the ids returned by get_unprocessed_articles
    pidx,       \* pidx[p]: the position of the loop over articles
    pipe,       \* pipe[p]: the locals of analyze_article_with_anthropic
    calls,      \* calls[p]: the model calls and delays made for the item, in order
    updated,    \* updated[p]: whether the UPDATE of the item ran ("ok") or
                \*   raised ("error")
    failed,     \* failed[p]: the stages of the item of which a model call raised
    selected,   \* selected[p]: whether the SELECT of the batch ran ("ok") or
                \*   raised ("error")
    interrupted,\* interrupted[p]: the last run of processor p that ended was
                \*   interrupted
    unsaved     \* unsaved[p]: the ids of which the last update by processor p
                \*   raised

classifyVars == <<ppc, articles, pidx, pipe, calls, updated, failed, selected, interrupted,
                 unsaved>>

\* A function of the program applied on its own: its argument and, once it
\* was applied, <<its result>>.
VARIABLES fnArg, fnResult

fnVars == <<fnArg, fnResult>>

\* The program that runs as the processor and what its constructor left.
VARIABLES
    variant,            \* "sqlite": process_articles.py,
                        \*   "postgres": process_articles_postgres.py
    anthropic_client,   \* TRUE: a client, FALSE: None
    grok_client         \* TRUE: a client, FALSE: None (there is none in the
                        \*   SQLite variant)

mainVars == <<variant, anthropic_client, grok_client>>

\* State of the backend runner (BackendRunner of backend_runner.py when
\* variant = "sqlite", of backend_runner_postgres.py when "postgres").
VARIABLES
    rpc,                \* where the runner stands in run()
    running,            \* self.running
    scraper_running,    \* self.scraper_running (the SQLite runner has no
                        \*   such flag: it stays FALSE)
    processor_running,  \* self.processor_running (likewise)
    last_scraper_run,   \* self.last_scraper_run
    last_processor_run, \* self.last_processor_run
    now,                \* time.time(), in seconds since run() was entered
    inflight            \* the scripts whose child process exists

runnerVars == <<rpc, running, scraper_running, processor_running,
                last_scraper_run, last_processor_run, now, inflight>>

vars == <<ingestVars, classifyVars, fnVars, mainVars, runnerVars>>

\* ---------------------------------------------------------------------
\* The backend runner: one loop that starts the scraper script and then
\* the processor script as child processes and waits for each of them.
\* ---------------------------------------------------------------------

\* The longest time the runner is followed, in seconds.
MaxClock == 2000

scraper_interval == 60

processor_interval == 60

ScraperPause == 10

\* subprocess.run(..., timeout=...)
ScriptTimeout == IF variant = "postgres" THEN 300 ELSE 1800

\* time.sleep at the end of a cycle
CycleSleep == IF variant = "postgres" THEN 300 ELSE 60

\* How long a child that ends by itself may take.
RunSeconds == {30}

\* How a run of a script ends: exit status 0, another exit status (or an
\* exception of subprocess.run), or the timeout.
RunOutcomes == {"ok", "failed", "timeout"}

\* Only the PostgreSQL runner keeps scraper_running and processor_running.
HasFlags == variant = "postgres"

InitRunner ==
    /\ rpc = "cycle"
    /\ running = TRUE
    /\ scraper_running = FALSE
    /\ processor_running = FALSE
    /\ now = 0
    /\ last_scraper_run = 0 - scraper_interval
    /\ last_processor_run = 0 - processor_interval
    /\ inflight = {}

\* should_run_scraper / should_run_processor
ShouldRun(last_run, interval) == now - last_run >= interval

\* What the finally clause of run_scraper / run_processor leaves in the flag.
MutFlagAfterRun(outcome) == HasFlags /\ outcome # "ok"

FlagAfterRun(outcome) == FALSE

\* run_script's return value.
RunScript(outcome) == outcome = "ok"

\* The time a run that ends with the outcome took.
Durations(outcome) == IF outcome = "timeout" THEN {ScriptTimeout} ELSE RunSeconds

\* The head of the loop.  When the scraper is due (and its flag is not
\* set) run_scraper sets the flag and subprocess.run starts the child;
\* otherwise the loop goes on to the processor.
CheckScraper ==
    /\ rpc = "cycle" /\ running
    /\ IF ShouldRun(last_scraper_run, scraper_interval) /\ ~scraper_running
       THEN /\ scraper_running' = HasFlags
            /\ inflight' = inflight \cup {"scraper"}
            /\ rpc' = "scraper"
       ELSE /\ rpc' = "check_processor"
            /\ UNCHANGED <<scraper_running, inflight>>
    /\ UNCHANGED <<running, processor_running, last_scraper_run,
                   last_processor_run, now>>
    /\ UNCHANGED <<ingestVars, classifyVars, fnVars, mainVars>>

\* subprocess.run returns: the child has exited or was killed at the
\* timeout; run_scraper records a success and resets the flag.
ScraperEnds(outcome, d) ==
    /\ rpc = "scraper"
    /\ now + d <= MaxClock
    /\ now' = now + d
    /\ inflight' = inflight \ {"scraper"}
    /\ last_scraper_run' = IF RunScript(outcome) THEN now' ELSE last_scraper_run
    /\ scraper_running' = FlagAfterRun(outcome)
    /\ rpc' = IF HasFlags THEN "pause" ELSE "check_processor"
    /\ UNCHANGED <<running, processor_running, last_processor_run>>
    /\ UNCHANGED <<ingestVars, classifyVars, fnVars, mainVars>>

\* time.sleep(10) between the scraper and the processor.
Pause ==
    /\ rpc = "pause"
    /\ now + ScraperPause <= MaxClock
    /\ now' = now + ScraperPause
    /\ rpc' = "check_processor"
    /\ UNCHANGED <<running, scraper_running, processor_running, last_scraper_run,
                   last_processor_run, inflight>>
    /\ UNCHANGED <<ingestVars, classifyVars, fnVars, mainVars>>

\* The processor's turn: run_processor when it is due and its flag is not
\* set, otherwise on to the end of the cycle.
CheckProcessor ==
    /\ rpc = "check_processor"
    /\ IF ShouldRun(last_processor_run, processor_interval) /\ ~processor_running
       THEN /\ processor_running' = HasFlags
            /\ inflight' = inflight \cup {"processor"}
            /\ rpc' = "processor"
       ELSE /\ rpc' = "sleep"
            /\ UNCHANGED <<processor_running, inflight>>
    /\ UNCHANGED <<running, scraper_running, last_scraper_run,
                   last_processor_run, now>>
    /\ UNCHANGED <<ingestVars, classifyVars, fnVars, mainVars>>

ProcessorEnds(outcome, d) ==
    /\ rpc = "processor"
    /\ now + d <= MaxClock
    /\ now' = now + d
    /\ inflight' = inflight \ {"processor"}
    /\ last_processor_run' = IF RunScript(outcome) THEN now' ELSE last_processor_run
    /\ processor_running' = FlagAfterRun(outcome)
    /\ rpc' = "sleep"
    /\ UNCHANGED <<running, scraper_running, last_scraper_run>>
    /\ UNCHANGED <<ingestVars, classifyVars, fnVars, mainVars>>

\* log_status and the sleep that ends the cycle.
EndCycle ==
    /\ rpc = "sleep"
    /\ now + CycleSleep <= MaxClock
    /\ now' = now + CycleSleep
    /\ rpc' = "cycle"
    /\ UNCHANGED <<running, scraper_running, processor_running, last_scraper_run,
                   last_processor_run, inflight>>
    /\ UNCHANGED <<ingestVars, classifyVars, fnVars, mainVars>>

\* signal_handler: SIGINT or SIGTERM arrives at any moment.
SignalHandler ==
    /\ running
    /\ rpc # "stopped"
    /\ running' = FALSE
    /\ UNCHANGED <<rpc, scraper_running, processor_running, last_scraper_run,
                   last_processor_run, now, inflight>>
    /\ UNCHANGED <<ingestVars, classifyVars, fnVars, mainVars>>

\* while self.running: the loop is left at its head.
StopRunner ==
    /\ rpc = "cycle" /\ ~running
    /\ rpc' = "stopped"
    /\ UNCHANGED <<running, scraper_running, processor_running, last_scraper_run,
                   last_processor_run, now, inflight>>
    /\ UNCHANGED <<ingestVars, classifyVars, fnVars, mainVars>>

NextRunner ==
    \/ CheckScraper
    \/ \E outcome \in RunOutcomes : \E d \in Durations(outcome) : ScraperEnds(outcome, d)
    \/ Pause
    \/ CheckProcessor
    \/ \E outcome \in RunOutcomes : \E d \in Durations(outcome) : ProcessorEnds(outcome, d)
    \/ EndCycle
    \/ SignalHandler
    \/ StopRunner

NoItem == [title |-> <<>>, url |-> <<>>, actual_datetime |-> NoTimestamp,
           content |-> "", clean_content |-> "", src |-> 0]

InitIngest ==
    /\ store = <<>>
    /\ spc = [s \in Scrapers |-> "idle"]
    /\ listing = [s \in Scrapers |-> <<>>]
    /\ recent = [s \in Scrapers |-> <<>>]
    /\ idx = [s \in Scrapers |-> 0]
    /\ item = [s \in Scrapers |-> NoItem]
    /\ chk = [s \in Scrapers |-> "none"]
    /\ lookup = [s \in Scrapers |-> "none"]
    /\ saved = [s \in Scrapers |-> "none"]
    /\ events = [s \in Scrapers |-> <<>>]
    /\ batch = [s \in Scrapers |-> <<>>]
    /\ fetchLog = [s \in Scrapers |-> {}]
    /\ insertLog = [s \in Scrapers |-> {}]
    /\ attempts = [s \in Scrapers |-> <<>>]

\* get_live_forum_page keeps a row when a datetime was recovered from it and
\* the datetime is within 24 hours.
RECURSIVE RecentNewsItems(_, _)
RecentNewsItems(rows, i) ==
    IF i > Len(rows) THEN <<>>
    ELSE (IF rows[i].dt # NoTimestamp /\ IsWithin24Hours(rows[i].dt)
          THEN << [title |-> rows[i].title, url |-> rows[i].url,
                   actual_datetime |-> rows[i].dt,
                   content |-> "", clean_content |-> "", src |-> i] >>
          ELSE <<>>) \o RecentNewsItems(rows, i + 1)

\* The end of the loop body: the next item, or the sort and the return.
Advance(s, evs) ==
    IF idx[s] < Len(recent[s])
    THEN /\ idx' = [idx EXCEPT ![s] = idx[s] + 1]
         /\ item' = [item EXCEPT ![s] = recent[s][idx[s] + 1]]
         /\ spc' = [spc EXCEPT ![s] = "precheck"]
         /\ events' = [events EXCEPT ![s] = evs]
         /\ batch' = batch
    ELSE /\ idx' = [idx EXCEPT ![s] = 0]
         /\ item' = [item EXCEPT ![s] = NoItem]
         /\ spc' = [spc EXCEPT ![s] = "done"]
         /\ events' = [events EXCEPT ![s] = <<>>]
         /\ batch' = [batch EXCEPT ![s] = SortEvents(evs)]

\* The requests of the listing page that get_live_forum_page may make: one
\* in the SQLite variant, max_retries in the PostgreSQL variant.
max_retries == 3

ListingAttempts == IF variant = "postgres" THEN max_retries ELSE 1

\* The requests made when request k succeeds iff outcomes[k]: the loop
\* returns from the first request that succeeds.
MutAttemptsMade(outcomes) == outcomes

AttemptsMade(outcomes) ==
    IF \E k \in 1..Len(outcomes) : outcomes[k]
    THEN SubSeq(outcomes, 1, CHOOSE k \in 1..Len(outcomes) :
                                 outcomes[k] /\ \A h \in 1..(k - 1) : ~outcomes[h])
    ELSE outcomes

\* scrape_live_news, step 1: the listing is fetched and filtered.  When
\* every request fails, or there is no recent item, the cycle ends with an
\* empty batch.
GetLiveForumPage(s, rows, outcomes) ==
    /\ spc[s] = "idle"
    /\ attempts' = [attempts EXCEPT ![s] = AttemptsMade(outcomes)]
    /\ LET fetchOk == \E k \in 1..Len(AttemptsMade(outcomes)) : AttemptsMade(outcomes)[k]
           found == IF fetchOk THEN RecentNewsItems(rows, 1) ELSE <<>>
       IN /\ listing' = [listing EXCEPT ![s] = IF fetchOk THEN rows ELSE <<>>]
          /\ recent' = [recent EXCEPT ![s] = found]
          /\ fetchLog' = [fetchLog EXCEPT ![s] = {}]
          /\ insertLog' = [insertLog EXCEPT ![s] = {}]
          /\ chk' = [chk EXCEPT ![s] = "none"]
          /\ lookup' = [lookup EXCEPT ![s] = "none"]
          /\ saved' = [saved EXCEPT ![s] = "none"]
          /\ events' = [events EXCEPT ![s] = <<>>]
          /\ IF found = <<>>
             THEN /\ batch' = [batch EXCEPT ![s] = <<>>]
                  /\ spc' = [spc EXCEPT ![s] = "done"]
                  /\ UNCHANGED <<idx, item>>
             ELSE /\ spc' = [spc EXCEPT ![s] = "precheck"]
                  /\ idx' = [idx EXCEPT ![s] = 1]
                  /\ item' = [item EXCEPT ![s] = found[1]]
                  /\ batch' = batch
    /\ UNCHANGED <<store, classifyVars, fnVars, mainVars, runnerVars>>

\* The dedup pre-check of the loop: an existing article is skipped with
\* `continue` (no fetch, no delay).
PreCheck(s, dbOk) ==
    /\ spc[s] = "precheck"
    /\ LET answer == CheckArticleExistsInDb(store, item[s].title, item[s].url, dbOk)
       IN /\ chk' = [chk EXCEPT ![s] = IF answer THEN "True" ELSE "False"]
          /\ lookup' = [lookup EXCEPT ![s] = IF dbOk THEN "ok" ELSE "error"]
          /\ IF answer
             THEN Advance(s, events[s])
             ELSE /\ spc' = [spc EXCEPT ![s] = "fetch"]
                  /\ UNCHANGED <<idx, item, events, batch>>
    /\ UNCHANGED <<store, listing, recent, saved, fetchLog, insertLog, attempts, classifyVars, fnVars, mainVars, runnerVars>>

\* "if content:" on what get_live_article_content returned: None when the
\* fetch or the extraction raised (the exception is caught), else the text.
MutHasContent(fetchOk, content) == fetchOk

HasContent(fetchOk, content) == fetchOk /\ content # ""

\* get_live_article_content and the assembly of the item.  A failed fetch
\* returns (None, None); no content skips the candidate.  The datetime of
\* the article page, when one is recovered, replaces that of the listing.
FetchArticle(s, fetchOk, content, page_dt) ==
    /\ spc[s] = "fetch"
    /\ fetchLog' = [fetchLog EXCEPT ![s] = fetchLog[s] \cup {item[s].src}]
    /\ IF HasContent(fetchOk, content)
       THEN /\ item' = [item EXCEPT ![s] =
                   [item[s] EXCEPT !.content = content,
                                   !.clean_content = "clean",
                                   !.actual_datetime =
                                       IF page_dt # NoTimestamp THEN page_dt
                                       ELSE item[s].actual_datetime]]
            /\ spc' = [spc EXCEPT ![s] = "save"]
       ELSE /\ spc' = [spc EXCEPT ![s] = "sleep"]
            /\ item' = item
    /\ UNCHANGED <<store, listing, recent, idx, chk, lookup, saved, events, batch, insertLog, attempts, classifyVars, fnVars, mainVars, runnerVars>>

\* save_article_to_db up to the INSERT: the persistence-time check is
\* is_article_exists on the hash.  Whatever it returns, the caller appends
\* the item to events_with_content.
SaveCheck(s, dbOk) ==
    /\ spc[s] = "save"
    /\ IF IsArticleExists(store, GenerateArticleHash(item[s].title, item[s].url), dbOk)
       THEN /\ saved' = [saved EXCEPT ![s] = "exists"]
            /\ events' = [events EXCEPT ![s] = Append(events[s], item[s])]
            /\ spc' = [spc EXCEPT ![s] = "sleep"]
       ELSE /\ spc' = [spc EXCEPT ![s] = "insert"]
            /\ UNCHANGED <<saved, events>>
    /\ UNCHANGED <<store, listing, recent, idx, item, chk, lookup, batch, fetchLog, insertLog, attempts, classifyVars, fnVars, mainVars, runnerVars>>

\* The INSERT and the commit.  An exception (a violated UNIQUE constraint,
\* a store error) is caught: save_article_to_db returns False.
InsertArticle(s, dbOk) ==
    /\ spc[s] = "insert"
    /\ LET row == NewRow(item[s], GenerateArticleHash(item[s].title, item[s].url))
       IN IF dbOk /\ ~ViolatesUnique(store, row)
          THEN /\ store' = Append(store, row)
               /\ saved' = [saved EXCEPT ![s] = "true"]
               /\ insertLog' = [insertLog EXCEPT ![s] = insertLog[s] \cup {item[s].src}]
          ELSE /\ saved' = [saved EXCEPT ![s] = "error"]
               /\ UNCHANGED <<store, insertLog>>
    /\ events' = [events EXCEPT ![s] = Append(events[s], item[s])]
    /\ spc' = [spc EXCEPT ![s] = "sleep"]
    /\ UNCHANGED <<listing, recent, idx, item, chk, lookup, batch, fetchLog, attempts, classifyVars, fnVars, mainVars, runnerVars>>

\* time.sleep(0.3) at the end of the loop body.
Sleep(s) ==
    /\ spc[s] = "sleep"
    /\ Advance(s, events[s])
    /\ UNCHANGED <<store, listing, recent, chk, lookup, saved, fetchLog, insertLog, attempts, classifyVars, fnVars, mainVars, runnerVars>>

\* The run of the script ends: main() has used the returned batch and the
\* process, with everything it held, is gone.
ExitScraper(s) ==
    /\ spc[s] = "done"
    /\ spc' = [spc EXCEPT ![s] = "idle"]
    /\ listing' = [listing EXCEPT ![s] = <<>>]
    /\ recent' = [recent EXCEPT ![s] = <<>>]
    /\ chk' = [chk EXCEPT ![s] = "none"]
    /\ lookup' = [lookup EXCEPT ![s] = "none"]
    /\ saved' = [saved EXCEPT ![s] = "none"]
    /\ batch' = [batch EXCEPT ![s] = <<>>]
    /\ fetchLog' = [fetchLog EXCEPT ![s] = {}]
    /\ insertLog' = [insertLog EXCEPT ![s] = {}]
    /\ attempts' = [attempts EXCEPT ![s] = <<>>]
    /\ UNCHANGED <<store, idx, item, events, classifyVars, fnVars, mainVars, runnerVars>>

(***************************************************************************)
(* Texts of the classification pipeline.  The state holds a short name     *)
(* for each text; TextOf gives the text itself, on which the code's tests  *)
(* are computed.                                                           *)
(***************************************************************************)
\* Python's `needle in hay`.
Contains(hay, needle) ==
    \E i \in 0..(Len(hay) - Len(needle)) :
        \A j \in 1..Len(needle) : hay[i + j] = needle[j]

Pad(n) == [i \in 1..n |-> "."]

\* non_relevant_keywords: sport, entertainment, business, routine, economic.
KwSport == <<"s", "p", "w", "r", "T">>
KwEntertainment == <<"b", "y", "d", "w", "r">>
KwBusiness == <<"e", "s", "q", "y", "M">>
KwRoutine == <<"S", "g", "r", "t", "y">>
KwEconomic == <<"k", "l", "k", "l", "y">>
MutNonRelevantKeywords == {KwSport, KwEntertainment, KwBusiness, KwRoutine}
NonRelevantKeywords == {KwSport, KwEntertainment, KwBusiness, KwRoutine, KwEconomic}

\* check_article_relevance on the text of a model response.
IsRelevantResponse(relevance_text) ==
    ~ \E keyword \in NonRelevantKeywords : Contains(relevance_text, keyword)

\* quality_indicators of verify_research_quality.
QualityIndicators ==
    { <<"m","q","w","r","w","t"," ","S","n","m","x","a","w">>,
      <<"l","p","y"," ","d","y","w","w","H">>,
      <<"e","l"," ","p","y">>,
      <<"m","t","w","K"," ","k","t","b","h">>,
      <<"h","x","h","r","h"," ","S","l">>,
      <<"l","d","b","r","y">>,
      <<"b","e","y","t","w","N">>,
      <<"b","a","t","r">> }
NotFoundMarker == <<"l","a"," ","m","x","a","t","y">>
MinResearchLength == 150

MutVerifyResearchQuality(research_result) ==
    LET has_sources == \E indicator \in QualityIndicators :
                           Contains(research_result, indicator)
        is_generic == Contains(research_result, NotFoundMarker)
    IN has_sources /\ ~is_generic
VerifyResearchQuality(research_result) ==
    LET has_sources == \E indicator \in QualityIndicators :
                           Contains(research_result, indicator)
        is_too_short == Len(research_result) < MinResearchLength
        is_generic == Contains(research_result, NotFoundMarker)
    IN has_sources /\ ~is_too_short /\ ~is_generic

ReportMarker == <<"l","p","y"," ","d","y","w","w","H">>

\* The text of the exception a failed model call raises, and the fixed
\* beginnings of the texts that Stage 3 and Stage 4 return for it.
ExceptionText == <<"t","i","m","e","o","u","t">>
TechnicalFailedPrefix ==
    <<"T","e","c","h","n","i","c","a","l"," ","a","n","a","l","y","s","i","s",
      " ","f","a","i","l","e","d",":"," ">>
JournalisticFailedPrefix ==
    <<"J","o","u","r","n","a","l","i","s","t","i","c"," ","w","r","i","t","i","n","g",
      " ","f","a","i","l","e","d",":"," ">>

TextOf(name) ==
    CASE name = "rel_sport" ->
             <<"z","h","w"," ","n","w","S","a"," ","s","p","w","r","T","y","b","y">>
      [] name = "rel_political" ->
             <<"n","w","S","a"," ","p","w","l","y","T","y">>
      [] name = "rel_error" ->
             <<"E","r","r","o","r"," ","i","n"," ","c","h","e","c","k","i","n","g",
               " ","r","e","l","e","v","a","n","c","e">>
      [] name = "res_good" -> ReportMarker \o Pad(MinResearchLength - 9)
      [] name = "res_short" -> ReportMarker \o Pad(MinResearchLength - 10)
      [] name = "res_nosource" -> Pad(MinResearchLength + 50)
      [] name = "res_generic" ->
             ReportMarker \o NotFoundMarker \o Pad(MinResearchLength)
      [] name = "res_failed" ->
             <<"R","e","s","e","a","r","c","h"," ","f","a","i","l","e","d">>
      [] name = "tech_failed" -> TechnicalFailedPrefix \o ExceptionText
      [] name = "grok_uninit" ->
             <<"G","r","o","k"," ","c","l","i","e","n","t"," ","n","o","t"," ",
               "i","n","i","t","i","a","l","i","z","e","d">>
      [] name = "grok_error" ->
             <<"G","r","o","k"," ","A","P","I"," ","e","r","r","o","r",":"," ">>
                 \o ExceptionText
      [] name = "article_failed" -> JournalisticFailedPrefix \o ExceptionText
      [] OTHER -> <<"t","e","x","t">>

\* check_article_relevance as a function of the outcome of the model call
\* and of the text of the response.
MutCheckArticleRelevance(callOk, relevance_text) ==
    IF callOk THEN <<IsRelevantResponse(relevance_text), relevance_text>>
    ELSE <<FALSE, TextOf("rel_error")>>
CheckArticleRelevance(callOk, relevance_text) ==
    IF callOk THEN <<IsRelevantResponse(relevance_text), relevance_text>>
    ELSE <<TRUE, TextOf("rel_error")>>

\* What the model may answer at each stage.
RelevanceResponses == {"rel_sport", "rel_political"}
ResearchResponses == {"res_good", "res_short", "res_nosource", "res_generic"}

JsonDumps(d) == <<d>>

(***************************************************************************)
(* The classification batches.                                             *)
(***************************************************************************)
NoPipe == [is_relevant |-> TRUE, relevance_reason |-> "", first |-> "",
           research_findings |-> "", technical_analysis |-> "",
           final_article |-> ""]

InitClassify ==
    /\ ppc = [p \in Procs |-> "idle"]
    /\ articles = [p \in Procs |-> <<>>]
    /\ pidx = [p \in Procs |-> 0]
    /\ pipe = [p \in Procs |-> NoPipe]
    /\ calls = [p \in Procs |-> <<>>]
    /\ updated = [p \in Procs |-> "none"]
    /\ failed = [p \in Procs |-> {}]
    /\ selected = [p \in Procs |-> "none"]
    /\ interrupted = [p \in Procs |-> FALSE]
    /\ unsaved = [p \in Procs |-> {}]

\* get_unprocessed_articles: the ids with isProcessed = 0, oldest first; an
\* exception is caught and answered [].
RECURSIVE MutUnprocessedFrom(_, _)
MutUnprocessedFrom(db, i) ==
    IF i > Len(db) THEN <<>> ELSE <<i>> \o MutUnprocessedFrom(db, i + 1)
RECURSIVE UnprocessedFrom(_, _)
UnprocessedFrom(db, i) ==
    IF i > Len(db) THEN <<>>
    ELSE (IF db[i].isProcessed = 0 THEN <<i>> ELSE <<>>) \o UnprocessedFrom(db, i + 1)

GetUnprocessedArticles(db, dbOk) == IF dbOk THEN UnprocessedFrom(db, 1) ELSE <<>>

\* The dictionary analyze_article_with_anthropic returns.
AnalysisResult(pl) ==
    IF pl.is_relevant
    THEN [ technical_analysis   |-> pl.technical_analysis,
           journalistic_article |-> pl.final_article,
           research_notes       |-> pl.research_findings,
           model_used           |-> "claude-3-haiku-20240307",
           is_relevant          |-> TRUE ]
    ELSE [ analysis    |-> [relevant |-> FALSE, reason |-> pl.relevance_reason,
                            category |-> "non-political"],
           model_used  |-> "claude-3-haiku-20240307",
           is_relevant |-> FALSE ]

\* update_article_as_processed: one UPDATE sets isProcessed and process_data
\* of the row with that id; an exception is caught.
MutUpdateArticleAsProcessed(db, article_id, analysis_data, dbOk) ==
    IF dbOk
    THEN [db EXCEPT ![article_id] =
             [@ EXCEPT !.isProcessed = IF analysis_data.is_relevant THEN 1 ELSE 2]]
    ELSE db
MutUpdateEveryArticle(db, article_id, analysis_data, dbOk) ==
    IF dbOk
    THEN [i \in 1..Len(db) |->
             [db[i] EXCEPT !.isProcessed = IF analysis_data.is_relevant THEN 1 ELSE 2,
                           !.process_data = JsonDumps(analysis_data)]]
    ELSE db
MutUpdateDespiteError(db, article_id, analysis_data, dbOk) ==
    [db EXCEPT ![article_id] =
        [@ EXCEPT !.isProcessed = IF analysis_data.is_relevant THEN 1 ELSE 2,
                  !.process_data = JsonDumps(analysis_data)]]
MutUpdateOnlyUnprocessed(db, article_id, analysis_data, dbOk) ==
    IF dbOk /\ db[article_id].isProcessed = 0
    THEN [db EXCEPT ![article_id] =
             [@ EXCEPT !.isProcessed = IF analysis_data.is_relevant THEN 1 ELSE 2,
                       !.process_data = JsonDumps(analysis_data)]]
    ELSE db
UpdateArticleAsProcessed(db, article_id, analysis_data, dbOk) ==
    IF dbOk
    THEN [db EXCEPT ![article_id] =
             [@ EXCEPT !.isProcessed = IF analysis_data.is_relevant THEN 1 ELSE 2,
                       !.process_data = JsonDumps(analysis_data)]]
    ELSE db

\* process_articles: the selection.  Nothing selected ends the batch.
StartBatch(p, dbOk) ==
    /\ ppc[p] = "idle"
    /\ LET found == GetUnprocessedArticles(store, dbOk)
       IN /\ articles' = [articles EXCEPT ![p] = found]
          /\ IF found = <<>>
             THEN /\ ppc' = [ppc EXCEPT ![p] = "done"]
                  /\ pidx' = pidx
             ELSE /\ ppc' = [ppc EXCEPT ![p] = "stage1"]
                  /\ pidx' = [pidx EXCEPT ![p] = 1]
    /\ pipe' = [pipe EXCEPT ![p] = NoPipe]
    /\ calls' = [calls EXCEPT ![p] = <<>>]
    /\ updated' = [updated EXCEPT ![p] = "none"]
    /\ failed' = [failed EXCEPT ![p] = {}]
    /\ selected' = [selected EXCEPT ![p] = IF dbOk THEN "ok" ELSE "error"]
    /\ UNCHANGED <<interrupted, unsaved, ingestVars, fnVars, mainVars, runnerVars>>

\* analyze_article_with_anthropic returns after Stage 1 when the article is
\* not relevant.
MutAfterStage1(is_relevant) == "stage2"
AfterStage1(is_relevant) == IF is_relevant THEN "stage2" ELSE "update"

\* Stage 1, check_article_relevance.  A failed call answers
\* (True, "Error in checking relevance").
Stage1(p, callOk, response) ==
    /\ ppc[p] = "stage1"
    /\ calls' = [calls EXCEPT ![p] = Append(calls[p], "relevance")]
    /\ LET relevant == CheckArticleRelevance(callOk, TextOf(response))[1]
           reason == IF callOk THEN response ELSE "rel_error"
       IN /\ pipe' = [pipe EXCEPT ![p] = [NoPipe EXCEPT !.is_relevant = relevant,
                                                       !.relevance_reason = reason]]
          /\ ppc' = [ppc EXCEPT ![p] = AfterStage1(relevant)]
    /\ failed' = [failed EXCEPT ![p] = IF callOk THEN failed[p] ELSE failed[p] \cup {"relevance"}]
    /\ UNCHANGED <<fnVars, mainVars, runnerVars, ingestVars, articles, pidx, updated, selected, interrupted, unsaved>>

\* Stage 2, research_topic: the first call and the quality gate.  A failed
\* call answers "Research failed".  time.sleep(1) follows the stage.
Stage2(p, callOk, response) ==
    /\ ppc[p] = "stage2"
    /\ IF ~callOk
       THEN /\ pipe' = [pipe EXCEPT ![p].research_findings = "res_failed"]
            /\ calls' = [calls EXCEPT ![p] = calls[p] \o <<"research", "sleep">>]
            /\ ppc' = [ppc EXCEPT ![p] = "stage3"]
       ELSE IF VerifyResearchQuality(TextOf(response))
       THEN /\ pipe' = [pipe EXCEPT ![p].first = response,
                                    ![p].research_findings = response]
            /\ calls' = [calls EXCEPT ![p] = calls[p] \o <<"research", "sleep">>]
            /\ ppc' = [ppc EXCEPT ![p] = "stage3"]
       ELSE /\ pipe' = [pipe EXCEPT ![p].first = response]
            /\ calls' = [calls EXCEPT ![p] = Append(calls[p], "research")]
            /\ ppc' = [ppc EXCEPT ![p] = "retry"]
    /\ failed' = [failed EXCEPT ![p] = IF callOk THEN failed[p] ELSE failed[p] \cup {"research"}]
    /\ UNCHANGED <<fnVars, mainVars, runnerVars, ingestVars, articles, pidx, updated, selected, interrupted, unsaved>>

\* Stage 2, the retry call: its result is returned as it is.
Stage2Retry(p, callOk, response) ==
    /\ ppc[p] = "retry"
    /\ pipe' = [pipe EXCEPT ![p].research_findings =
                   IF callOk THEN response ELSE "res_failed"]
    /\ calls' = [calls EXCEPT ![p] = calls[p] \o <<"research", "sleep">>]
    /\ ppc' = [ppc EXCEPT ![p] = "stage3"]
    /\ failed' = [failed EXCEPT ![p] = IF callOk THEN failed[p] ELSE failed[p] \cup {"research"}]
    /\ UNCHANGED <<fnVars, mainVars, runnerVars, ingestVars, articles, pidx, updated, selected, interrupted, unsaved>>

\* Stage 3, create_technical_analysis, and the time.sleep(1) after it.
Stage3(p, callOk) ==
    /\ ppc[p] = "stage3"
    /\ pipe' = [pipe EXCEPT ![p].technical_analysis =
                   IF callOk THEN "tech_ok" ELSE "tech_failed"]
    /\ calls' = [calls EXCEPT ![p] = calls[p] \o <<"analysis", "sleep">>]
    /\ ppc' = [ppc EXCEPT ![p] = "stage4"]
    /\ failed' = [failed EXCEPT ![p] = IF callOk THEN failed[p] ELSE failed[p] \cup {"analysis"}]
    /\ UNCHANGED <<fnVars, mainVars, runnerVars, ingestVars, articles, pidx, updated, selected, interrupted, unsaved>>

\* Stage 4, create_journalistic_article.
Stage4(p, callOk) ==
    /\ ppc[p] = "stage4"
    /\ pipe' = [pipe EXCEPT ![p].final_article =
                   IF callOk THEN "article_ok" ELSE "article_failed"]
    /\ calls' = [calls EXCEPT ![p] = Append(calls[p], "article")]
    /\ ppc' = [ppc EXCEPT ![p] = "update"]
    /\ failed' = [failed EXCEPT ![p] = IF callOk THEN failed[p] ELSE failed[p] \cup {"article"}]
    /\ UNCHANGED <<fnVars, mainVars, runnerVars, ingestVars, articles, pidx, updated, selected, interrupted, unsaved>>

\* The update of the item with the result of the pipeline.
UpdateArticle(p, dbOk) ==
    /\ ppc[p] = "update"
    /\ store' = UpdateArticleAsProcessed(store, articles[p][pidx[p]],
                                         AnalysisResult(pipe[p]), dbOk)
    /\ ppc' = [ppc EXCEPT ![p] = "next"]
    /\ updated' = [updated EXCEPT ![p] = IF dbOk THEN "ok" ELSE "error"]
    /\ unsaved' = [unsaved EXCEPT ![p] =
                       IF dbOk THEN @ \ {articles[p][pidx[p]]}
                       ELSE @ \cup {articles[p][pidx[p]]}]
    /\ UNCHANGED <<spc, listing, recent, idx, item, chk, lookup, saved, events, batch,
                   fetchLog, insertLog, attempts, articles, pidx, pipe, calls, failed,
                   selected, interrupted, fnVars, mainVars, runnerVars>>

\* The end of the loop body: time.sleep(2) and the next item, or the end.
NextArticle(p) ==
    /\ ppc[p] = "next"
    /\ IF pidx[p] < Len(articles[p])
       THEN /\ pidx' = [pidx EXCEPT ![p] = pidx[p] + 1]
            /\ ppc' = [ppc EXCEPT ![p] = "stage1"]
       ELSE /\ pidx' = pidx
            /\ ppc' = [ppc EXCEPT ![p] = "done"]
    /\ pipe' = [pipe EXCEPT ![p] = NoPipe]
    /\ calls' = [calls EXCEPT ![p] = <<>>]
    /\ updated' = [updated EXCEPT ![p] = "none"]
    /\ failed' = [failed EXCEPT ![p] = {}]
    /\ UNCHANGED <<fnVars, mainVars, runnerVars, ingestVars, articles, selected, interrupted, unsaved>>

\* The run of process_articles.py ends.
ExitProcessor(p) ==
    /\ ppc[p] = "done"
    /\ ppc' = [ppc EXCEPT ![p] = "idle"]
    /\ articles' = [articles EXCEPT ![p] = <<>>]
    /\ pidx' = [pidx EXCEPT ![p] = 0]
    /\ selected' = [selected EXCEPT ![p] = "none"]
    /\ interrupted' = [interrupted EXCEPT ![p] = FALSE]
    /\ unsaved' = unsaved
    /\ UNCHANGED <<fnVars, mainVars, runnerVars, ingestVars, pipe, calls, updated, failed>>

\* save_article_to_db as a whole, run by a scraper between the steps of a
\* batch: neither of its two statements reads what the pipeline writes.
SaveArticleToDb(article_data, checkOk, insertOk) ==
    /\ LET hash_id == GenerateArticleHash(article_data.title, article_data.url)
           row == NewRow(article_data, hash_id)
       IN IF IsArticleExists(store, hash_id, checkOk) THEN store' = store
          ELSE IF insertOk /\ ~ViolatesUnique(store, row)
               THEN store' = Append(store, row)
               ELSE store' = store
    /\ UNCHANGED <<spc, listing, recent, idx, item, chk, lookup, saved, events, batch,
                   fetchLog, insertLog, attempts, classifyVars, fnVars, mainVars, runnerVars>>

\* The number of fragments a response text is made of, at most.
MaxFragments == 2

RelevanceFragments ==
    NonRelevantKeywords \cup
    { <<"s","p","w">>, <<"r","T">>, <<"k","l">>, <<"k","l","y">>,
      <<"p","w","l","y","T","y">>, <<" ">>, <<"y","b","y">> }

RECURSIVE RelevanceTexts(_)
RelevanceTexts(n) ==
    IF n = 0 THEN { <<>> }
    ELSE LET shorter == RelevanceTexts(n - 1)
         IN shorter \cup { t \o f : t \in shorter, f \in RelevanceFragments }

ApplyCheckArticleRelevance(callOk) ==
    /\ fnResult = <<>>
    /\ fnResult' = <<CheckArticleRelevance(callOk, fnArg)>>
    /\ UNCHANGED <<fnArg, ingestVars, classifyVars, mainVars, runnerVars>>

(***************************************************************************)
(* The specifications.                                                     *)
(***************************************************************************)
\* process_articles.py with its Anthropic client initialized.
InitClients == variant = "sqlite" /\ anthropic_client = TRUE /\ grok_client = FALSE

Init ==
    InitIngest /\ InitClassify /\ InitRunner /\ InitClients /\ fnArg = <<>> /\ fnResult = <<>>

AllIdle == \A s \in Scrapers : spc[s] = "idle"

ScraperStep(s) ==
    \/ \E dbOk \in BOOLEAN : PreCheck(s, dbOk)
    \/ \E fetchOk \in BOOLEAN, content \in PageContents, page_dt \in PageDatetimes :
          FetchArticle(s, fetchOk, content, page_dt)
    \/ \E dbOk \in BOOLEAN : SaveCheck(s, dbOk)
    \/ \E dbOk \in BOOLEAN : InsertArticle(s, dbOk)
    \/ Sleep(s)
    \/ ExitScraper(s)

\* Ingestion cycles run one at a time; any call of the store, and any
\* fetch, may fail.
Next ==
    \/ \E rows \in Listings, outcomes \in [1..ListingAttempts -> BOOLEAN] :
          AllIdle /\ GetLiveForumPage(1, rows, outcomes)
    \/ ScraperStep(1)

Spec == Init /\ [][Next]_vars

\* Two ingestion cycles run concurrently on a store and a site that work;
\* both find the same story, under one url or under two.
RaceRows == { r \in ListingRows : r.title = TitleA /\ IsWithin24Hours(r.dt) }
RaceListings == UNION { [1..n -> RaceRows] : n \in 1..MaxListing }

RaceStep(s) ==
    \/ PreCheck(s, TRUE)
    \/ FetchArticle(s, TRUE, "body", NoTimestamp)
    \/ SaveCheck(s, TRUE)
    \/ InsertArticle(s, TRUE)
    \/ Sleep(s)
    \/ ExitScraper(s)

NextRace ==
    \E s \in Scrapers :
        \/ \E rows \in RaceListings : GetLiveForumPage(s, rows, <<TRUE>>)
        \/ RaceStep(s)

SpecRace == Init /\ [][NextRace]_vars

\* Ingestion cycles of either variant of the scraper.
InitListing ==
    /\ InitIngest /\ InitClassify /\ InitRunner
    /\ fnArg = <<>> /\ fnResult = <<>>
    /\ variant \in {"sqlite", "postgres"}
    /\ anthropic_client = TRUE
    /\ grok_client = (variant = "postgres")

SpecListing == InitListing /\ [][Next]_vars

\* Classification batches run one at a time, on a store that scrapers fill;
\* any call of the model or of the store may fail.
SavedArticles ==
    { [title |-> TitleA, url |-> UrlHA, actual_datetime |-> <<Now - 3600>>,
       content |-> "body", clean_content |-> "clean", src |-> 1],
      [title |-> TitleAH, url |-> UrlHHA, actual_datetime |-> <<Now - 7200>>,
       content |-> "body", clean_content |-> "clean", src |-> 1] }

ProcessorStep(p) ==
    \/ \E dbOk \in BOOLEAN : StartBatch(p, dbOk)
    \/ \E callOk \in BOOLEAN, response \in RelevanceResponses : Stage1(p, callOk, response)
    \/ \E callOk \in BOOLEAN, response \in ResearchResponses : Stage2(p, callOk, response)
    \/ \E callOk \in BOOLEAN, response \in ResearchResponses : Stage2Retry(p, callOk, response)
    \/ \E callOk \in BOOLEAN : Stage3(p, callOk)
    \/ \E callOk \in BOOLEAN : Stage4(p, callOk)
    \/ \E dbOk \in BOOLEAN : UpdateArticle(p, dbOk)
    \/ NextArticle(p)
    \/ ExitProcessor(p)

NextClassify ==
    \/ \E article_data \in SavedArticles, checkOk \in BOOLEAN, insertOk \in BOOLEAN :
          SaveArticleToDb(article_data, checkOk, insertOk)
    \/ ProcessorStep(1)

SpecClassify == Init /\ [][NextClassify]_vars

\* Two runs of the processor at once (nothing in process_articles.py or in
\* the store keeps a second run from starting), on a store that works and
\* holds one item.
OverlapStep(p) ==
    \/ StartBatch(p, TRUE)
    \/ \E callOk \in BOOLEAN, response \in RelevanceResponses : Stage1(p, callOk, response)
    \/ \E response \in ResearchResponses : Stage2(p, TRUE, response)
    \/ \E response \in ResearchResponses : Stage2Retry(p, TRUE, response)
    \/ Stage3(p, TRUE)
    \/ Stage4(p, TRUE)
    \/ UpdateArticle(p, TRUE)
    \/ NextArticle(p)
    \/ ExitProcessor(p)

NextOverlap ==
    \/ \E article_data \in {a \in SavedArticles : a.title = TitleA} :
          SaveArticleToDb(article_data, TRUE, TRUE)
    \/ \E p \in Procs : OverlapStep(p)

SpecOverlap == Init /\ [][NextOverlap]_vars

\* The run of process_articles.py is interrupted while a batch is under
\* way: main catches KeyboardInterrupt and returns, and the process, with
\* everything it held, is gone.  A statement of the store that was under
\* way was not committed.
Interrupt(p) ==
    /\ ppc[p] \notin {"idle", "done"}
    /\ ppc' = [ppc EXCEPT ![p] = "idle"]
    /\ articles' = [articles EXCEPT ![p] = <<>>]
    /\ pidx' = [pidx EXCEPT ![p] = 0]
    /\ pipe' = [pipe EXCEPT ![p] = NoPipe]
    /\ calls' = [calls EXCEPT ![p] = <<>>]
    /\ updated' = [updated EXCEPT ![p] = "none"]
    /\ failed' = [failed EXCEPT ![p] = {}]
    /\ selected' = [selected EXCEPT ![p] = "none"]
    /\ interrupted' = [interrupted EXCEPT ![p] = TRUE]
    /\ unsaved' = unsaved
    /\ UNCHANGED <<ingestVars, fnVars, mainVars, runnerVars>>

\* Batches that may be interrupted, one after the other.
NextInterrupt ==
    \/ NextClassify
    \/ Interrupt(1)

SpecInterrupt == Init /\ [][NextInterrupt]_vars

\* The backend runner of either variant, followed from the entry of run().
InitBackend ==
    /\ InitIngest /\ InitClassify /\ InitRunner
    /\ fnArg = <<>> /\ fnResult = <<>>
    /\ variant \in {"sqlite", "postgres"}
    /\ anthropic_client = TRUE /\ grok_client = FALSE

SpecRunner == InitBackend /\ [][NextRunner]_vars

\* check_article_relevance applied once to a response text.
InitRelevance ==
    /\ InitIngest /\ InitClassify /\ InitRunner /\ InitClients
    /\ fnArg \in RelevanceTexts(MaxFragments)
    /\ fnResult = <<>>

NextRelevance == \E callOk \in BOOLEAN : ApplyCheckArticleRelevance(callOk)

SpecRelevance == InitRelevance /\ [][NextRelevance]_vars

(***************************************************************************)
(* The PostgreSQL variant of the processor: Stages 2 and 3 go through      *)
(* call_grok_api, which makes no call without a client and returns a text  *)
(* in every case.                                                          *)
(***************************************************************************)
CallGrokApi(client, callOk, response) ==
    IF ~client THEN "grok_uninit"
    ELSE IF callOk THEN response ELSE "grok_error"

\* The calls log after call_grok_api: a call is made only with a client.
GrokCalled(p, call) == IF grok_client THEN Append(calls[p], call) ELSE calls[p]

\* Stage 2, research_topic of the PostgreSQL variant: the text that
\* call_grok_api returns goes through the quality gate, whatever it is.
GrokStage2(p, callOk, response) ==
    /\ ppc[p] = "stage2"
    /\ LET research_result == CallGrokApi(grok_client, callOk, response)
       IN IF VerifyResearchQuality(TextOf(research_result))
          THEN /\ pipe' = [pipe EXCEPT ![p].first = research_result,
                                       ![p].research_findings = research_result]
               /\ calls' = [calls EXCEPT ![p] = Append(GrokCalled(p, "research"), "sleep")]
               /\ ppc' = [ppc EXCEPT ![p] = "stage3"]
          ELSE /\ pipe' = [pipe EXCEPT ![p].first = research_result]
               /\ calls' = [calls EXCEPT ![p] = GrokCalled(p, "research")]
               /\ ppc' = [ppc EXCEPT ![p] = "retry"]
    /\ failed' = [failed EXCEPT ![p] =
                     IF grok_client /\ ~callOk THEN failed[p] \cup {"research"} ELSE failed[p]]
    /\ UNCHANGED <<fnVars, mainVars, runnerVars, ingestVars, articles, pidx, updated, selected, interrupted, unsaved>>

GrokStage2Retry(p, callOk, response) ==
    /\ ppc[p] = "retry"
    /\ pipe' = [pipe EXCEPT ![p].research_findings =
                   CallGrokApi(grok_client, callOk, response)]
    /\ calls' = [calls EXCEPT ![p] = Append(GrokCalled(p, "research"), "sleep")]
    /\ ppc' = [ppc EXCEPT ![p] = "stage3"]
    /\ failed' = [failed EXCEPT ![p] =
                     IF grok_client /\ ~callOk THEN failed[p] \cup {"research"} ELSE failed[p]]
    /\ UNCHANGED <<fnVars, mainVars, runnerVars, ingestVars, articles, pidx, updated, selected, interrupted, unsaved>>

GrokStage3(p, callOk) ==
    /\ ppc[p] = "stage3"
    /\ pipe' = [pipe EXCEPT ![p].technical_analysis =
                   CallGrokApi(grok_client, callOk, "tech_ok")]
    /\ calls' = [calls EXCEPT ![p] = Append(GrokCalled(p, "analysis"), "sleep")]
    /\ ppc' = [ppc EXCEPT ![p] = "stage4"]
    /\ failed' = [failed EXCEPT ![p] =
                     IF grok_client /\ ~callOk THEN failed[p] \cup {"analysis"} ELSE failed[p]]
    /\ UNCHANGED <<fnVars, mainVars, runnerVars, ingestVars, articles, pidx, updated, selected, interrupted, unsaved>>

\* main of either variant: without an Anthropic client it returns at once;
\* otherwise process_articles runs.  (The probe of test_internet_access
\* only prints a warning.)
Main(p, dbOk) ==
    /\ ppc[p] = "idle"
    /\ IF anthropic_client
       THEN StartBatch(p, dbOk)
       ELSE /\ ppc' = [ppc EXCEPT ![p] = "done"]
            /\ UNCHANGED <<articles, pidx, pipe, calls, updated, failed, selected, interrupted, unsaved,
                           ingestVars, fnVars, mainVars, runnerVars>>

\* A run of either variant of the processor, with whatever clients its
\* constructor could initialize, on a store that works.
InitMain ==
    /\ InitIngest /\ InitClassify /\ InitRunner
    /\ fnArg = <<>> /\ fnResult = <<>>
    /\ variant \in {"sqlite", "postgres"}
    /\ anthropic_client \in BOOLEAN
    /\ grok_client \in (IF variant = "postgres" THEN BOOLEAN ELSE {FALSE})

NextMain ==
    \/ \E article_data \in SavedArticles : SaveArticleToDb(article_data, TRUE, TRUE)
    \/ Main(1, TRUE)
    \/ \E callOk \in BOOLEAN, response \in RelevanceResponses : Stage1(1, callOk, response)
    \/ \E callOk \in BOOLEAN, response \in ResearchResponses :
          \/ variant = "sqlite" /\ Stage2(1, callOk, response)
          \/ variant = "sqlite" /\ Stage2Retry(1, callOk, response)
          \/ variant = "postgres" /\ GrokStage2(1, callOk, response)
          \/ variant = "postgres" /\ GrokStage2Retry(1, callOk, response)
    \/ \E callOk \in BOOLEAN :
          \/ variant = "sqlite" /\ Stage3(1, callOk)
          \/ variant = "postgres" /\ GrokStage3(1, callOk)
          \/ Stage4(1, callOk)
    \/ UpdateArticle(1, TRUE)
    \/ NextArticle(1)
    \/ ExitProcessor(1)

SpecMain == InitMain /\ [][NextMain]_vars

(***************************************************************************)
(* Datetime recovery.  The text of a row or of a page is a sequence of     *)
(* characters; the three regular expressions are matched as re.search      *)
(* matches them: leftmost start, \d{1,2} taking two digits when it can.    *)
(* A recovered datetime is <<[year, month, day, hour, minute]>>, None is   *)
(* <<>>.                                                                   *)
(***************************************************************************)
IsDigit(c) == c \in {"0", "1", "2", "3", "4", "5", "6", "7", "8", "9"}

DigitValue(c) ==
    CASE c = "0" -> 0 [] c = "1" -> 1 [] c = "2" -> 2 [] c = "3" -> 3
      [] c = "4" -> 4 [] c = "5" -> 5 [] c = "6" -> 6 [] c = "7" -> 7
      [] c = "8" -> 8 [] c = "9" -> 9

\* int() of the n digits of text that start at i.
IntAt(text, i, n) ==
    IF n = 1 THEN DigitValue(text[i])
    ELSE 10 * DigitValue(text[i]) + DigitValue(text[i + 1])

\* (\d{1,2}) followed by the character sep, at i: the number of digits
\* taken, 0 when there is no match.
DigitsBefore(text, i, sep) ==
    IF i + 2 <= Len(text) /\ IsDigit(text[i]) /\ IsDigit(text[i + 1])
          /\ text[i + 2] = sep
    THEN 2
    ELSE IF i + 1 <= Len(text) /\ IsDigit(text[i]) /\ text[i + 1] = sep
    THEN 1
    ELSE 0

TwoDigitsAt(text, i) ==
    i + 1 <= Len(text) /\ IsDigit(text[i]) /\ IsDigit(text[i + 1])

\* (\d{1,2})\.(\d{1,2})\.(\d{2}) at i: the groups and the position after
\* the match, or <<>>.
DateAt(text, i) ==
    LET a == DigitsBefore(text, i, ".")
        j == i + a + 1
        b == DigitsBefore(text, j, ".")
        k == j + b + 1
    IN IF a > 0 /\ b > 0 /\ TwoDigitsAt(text, k)
       THEN << [day |-> IntAt(text, i, a), month |-> IntAt(text, j, b),
                year |-> IntAt(text, k, 2), after |-> k + 2] >>
       ELSE <<>>

\* (\d{1,2}):(\d{2}) at i.
TimeAt(text, i) ==
    LET h == DigitsBefore(text, i, ":")
        j == i + h + 1
    IN IF h > 0 /\ TwoDigitsAt(text, j)
       THEN << [hour |-> IntAt(text, i, h), minute |-> IntAt(text, j, 2)] >>
       ELSE <<>>

\* The position after the whitespace that starts at i (i itself when there
\* is none).
RECURSIVE AfterSpaces(_, _)
AfterSpaces(text, i) ==
    IF i <= Len(text) /\ text[i] \in {" ", "\n", "\t"}
    THEN AfterSpaces(text, i + 1)
    ELSE i

\* The date pattern, \s+, the time pattern, at i: d is the match of the
\* date pattern at i, j the position after the whitespace that follows it.
DateThenTime(text, d, j) ==
    IF j > d[1].after /\ TimeAt(text, j) # <<>>
    THEN << [day |-> d[1].day, month |-> d[1].month, year |-> d[1].year,
             hour |-> TimeAt(text, j)[1].hour,
             minute |-> TimeAt(text, j)[1].minute] >>
    ELSE <<>>

DateTimeAt(text, i) ==
    IF DateAt(text, i) = <<>> THEN <<>>
    ELSE DateThenTime(text, DateAt(text, i),
                      AfterSpaces(text, DateAt(text, i)[1].after))

\* re.search: the match at the leftmost position from i on that has one,
\* or <<>>.
RECURSIVE SearchDateFrom(_, _)
SearchDateFrom(text, i) ==
    IF i > Len(text) THEN <<>>
    ELSE IF DateAt(text, i) # <<>> THEN DateAt(text, i)
    ELSE SearchDateFrom(text, i + 1)

RECURSIVE SearchTimeFrom(_, _)
SearchTimeFrom(text, i) ==
    IF i > Len(text) THEN <<>>
    ELSE IF TimeAt(text, i) # <<>> THEN TimeAt(text, i)
    ELSE SearchTimeFrom(text, i + 1)

RECURSIVE SearchDateTimeFrom(_, _)
SearchDateTimeFrom(text, i) ==
    IF i > Len(text) THEN <<>>
    ELSE IF DateTimeAt(text, i) # <<>> THEN DateTimeAt(text, i)
    ELSE SearchDateTimeFrom(text, i + 1)

SearchDate(text) == SearchDateFrom(text, 1)
SearchTime(text) == SearchTimeFrom(text, 1)
SearchDateTime(text) == SearchDateTimeFrom(text, 1)

\* datetime(year, month, day, hour, minute): the value, or <<>> where the
\* constructor raises ValueError.
DaysInMonth(year, month) ==
    IF month = 2 THEN (IF year % 4 = 0 THEN 29 ELSE 28)
    ELSE IF month \in {4, 6, 9, 11} THEN 30 ELSE 31

MutDatetime(year, month, day, hour, minute) ==
    IF /\ month \in 1..12 /\ day \in 1..DaysInMonth(year, month)
       /\ hour \in 0..23 /\ minute \in 0..59
    THEN << [year |-> year - 100, month |-> month, day |-> day,
             hour |-> hour, minute |-> minute] >>
    ELSE <<>>
Datetime(year, month, day, hour, minute) ==
    IF /\ month \in 1..12 /\ day \in 1..DaysInMonth(year, month)
       /\ hour \in 0..23 /\ minute \in 0..59
    THEN << [year |-> year, month |-> month, day |-> day,
             hour |-> hour, minute |-> minute] >>
    ELSE <<>>

\* datetime.now() of the run.
WallClock == [year |-> 2025, month |-> 1, day |-> 6, hour |-> 12, minute |-> 0]

\* The datetime built from the groups of a match of the combined pattern,
\* of the date pattern with a time, and of the time pattern with a date.
FromDateTime(m) ==
    IF m = <<>> THEN <<>>
    ELSE Datetime(2000 + m[1].year, m[1].month, m[1].day, m[1].hour, m[1].minute)

FromDate(d, hour, minute) ==
    Datetime(2000 + d[1].year, d[1].month, d[1].day, hour, minute)

FromTime(t, date) ==
    Datetime(date.year, date.month, date.day, t[1].hour, t[1].minute)

\* extract_actual_datetime_from_row, given what the combined pattern
\* yielded and the matches of the separate patterns.  After a ValueError of
\* the combined pattern the code goes on to the separate patterns; the
\* three branches on the separate patterns are one if/elif chain.
RowDatetime(combined, date_pattern, time_pattern) ==
    IF combined # <<>> THEN combined
    ELSE IF date_pattern # <<>> /\ time_pattern # <<>>
    THEN FromDate(date_pattern, time_pattern[1].hour, time_pattern[1].minute)
    ELSE IF date_pattern # <<>>
    THEN FromDate(date_pattern, WallClock.hour, WallClock.minute)
    ELSE IF time_pattern # <<>>
    THEN FromTime(time_pattern, WallClock)
    ELSE <<>>

ExtractActualDatetimeFromRow(row_text) ==
    RowDatetime(FromDateTime(SearchDateTime(row_text)),
                SearchDate(row_text), SearchTime(row_text))

\* extract_datetime_from_article_page: three separate ifs, each returning
\* when its datetime is valid; the date alone is given the time 00:00.
PageDatetime(combined, date_pattern, time_pattern) ==
    IF combined # <<>> THEN combined
    ELSE IF date_pattern # <<>> /\ FromDate(date_pattern, 0, 0) # <<>>
    THEN FromDate(date_pattern, 0, 0)
    ELSE IF time_pattern # <<>>
    THEN FromTime(time_pattern, WallClock)
    ELSE <<>>

ExtractDatetimeFromArticlePage(page_text) ==
    PageDatetime(FromDateTime(SearchDateTime(page_text)),
                 SearchDate(page_text), SearchTime(page_text))

\* The texts recovery is applied to: up to MaxTokens pieces, each a date, a
\* time (with valid or invalid numbers), a space or a letter.
MaxTokens == 3

DatetimeTokens ==
    { <<"0","5",".","0","1",".","2","5">>, <<"3","2",".","0","1",".","2","5">>,
      <<"1","0",":","3","0">>, <<"2","5",":","1","0">>, <<" ">>, <<"x">> }

RECURSIVE DatetimeTexts(_)
DatetimeTexts(n) ==
    IF n = 0 THEN { <<>> }
    ELSE LET shorter == DatetimeTexts(n - 1)
         IN shorter \cup { t \o f : t \in shorter, f \in DatetimeTokens }

ApplyExtractActualDatetimeFromRow ==
    /\ fnResult = <<>>
    /\ fnResult' = <<"row", ExtractActualDatetimeFromRow(fnArg)>>
    /\ UNCHANGED <<fnArg, ingestVars, classifyVars, mainVars, runnerVars>>

ApplyExtractDatetimeFromArticlePage ==
    /\ fnResult = <<>>
    /\ fnResult' = <<"page", ExtractDatetimeFromArticlePage(fnArg)>>
    /\ UNCHANGED <<fnArg, ingestVars, classifyVars, mainVars, runnerVars>>

InitDatetime ==
    /\ InitIngest /\ InitClassify /\ InitRunner /\ InitClients
    /\ fnArg \in DatetimeTexts(MaxTokens)
    /\ fnResult = <<>>

NextDatetime ==
    \/ ApplyExtractActualDatetimeFromRow
    \/ ApplyExtractDatetimeFromArticlePage

SpecDatetime == InitDatetime /\ [][NextDatetime]_vars

(***************************************************************************)
(* The content cleaner.  A content text is a sequence of characters; in    *)
(* it a Hebrew letter is written as a capital, a Latin letter in lower     *)
(* case.                                                                   *)
(***************************************************************************)
Whitespace == {" ", "\n"}

HebrewLetters ==
    {"A", "B", "G", "D", "H", "W", "Z", "X", "J", "Y", "K", "L", "M", "N",
     "S", "E", "P", "C", "Q", "R", "F", "T"}

\* What clean_article_content returns for no content, and for content of
\* which the cleaning leaves nothing.
NoContentPlaceholder ==
    <<"A", "Y", "N", " ", "T", "W", "K", "N", " ", "Z", "M", "Y", "N">>

LinkPlaceholder ==
    <<"T", "W", "K", "N", " ", "Z", "M", "Y", "N", " ",
      "B", "Q", "Y", "S", "W", "R", " ", "H", "M", "Q", "W", "R", "Y">>

Ellipsis == <<".", ".", ".">>

MaxContentLength == 1000

MinLineLength == 10

\* The least number of a non-empty set of numbers.
Least(S) == CHOOSE x \in S : \A y \in S : x <= y

\* str.split('\n'), given the positions nl of the newlines.
RECURSIVE SplitFrom(_, _, _)
SplitFrom(text, nl, start) ==
    IF {i \in nl : i >= start} = {}
    THEN << SubSeq(text, start, Len(text)) >>
    ELSE << SubSeq(text, start, Least({i \in nl : i >= start}) - 1) >>
         \o SplitFrom(text, nl, Least({i \in nl : i >= start}) + 1)

SplitLines(text) == SplitFrom(text, {i \in 1..Len(text) : text[i] = "\n"}, 1)

\* '\n'.join(lines)
RECURSIVE JoinLines(_)
JoinLines(lines) ==
    IF lines = <<>> THEN <<>>
    ELSE IF Len(lines) = 1 THEN lines[1]
    ELSE lines[1] \o <<"\n">> \o JoinLines(Tail(lines))

\* str.strip(), given the positions ws of the whitespace of the text.
StripAt(text, ws, lead, trail) ==
    IF lead = Len(text) THEN <<>>
    ELSE SubSeq(text, lead + 1, Len(text) - trail)

StripWith(text, ws) ==
    StripAt(text, ws,
            CHOOSE k \in 0..Cardinality(ws) :
                (\A i \in 1..k : i \in ws) /\ (k + 1) \notin ws,
            CHOOSE k \in 0..Cardinality(ws) :
                (\A i \in 1..k : (Len(text) + 1 - i) \in ws)
                /\ (Len(text) - k) \notin ws)

Strip(text) == StripWith(text, {i \in 1..Len(text) : text[i] \in Whitespace})

\* re.sub(r'https?://[^\s]+', '', line): starts holds the positions where
\* the pattern matches, ws the positions of the whitespace.
UrlPrefix == <<"h", "t", "t", "p", ":", "/", "/">>
UrlPrefixS == <<"h", "t", "t", "p", "s", ":", "/", "/">>

UrlStarts(line) ==
    { i \in 1..Len(line) :
        /\ line[i] = "h"
        /\ \/ /\ i + 7 <= Len(line)
              /\ SubSeq(line, i, i + 6) = UrlPrefix
              /\ line[i + 7] \notin Whitespace
           \/ /\ i + 8 <= Len(line)
              /\ SubSeq(line, i, i + 7) = UrlPrefixS
              /\ line[i + 8] \notin Whitespace }

RECURSIVE RemoveUrlsFrom(_, _, _, _)
RemoveUrlsFrom(line, starts, ws, from) ==
    IF {i \in starts : i >= from} = {}
    THEN SubSeq(line, from, Len(line))
    ELSE SubSeq(line, from, Least({i \in starts : i >= from}) - 1)
         \o (IF {j \in ws : j > Least({i \in starts : i >= from})} = {}
             THEN <<>>
             ELSE RemoveUrlsFrom(line, starts, ws,
                      Least({j \in ws : j > Least({i \in starts : i >= from})})))

RemoveUrls(line) ==
    RemoveUrlsFrom(line, UrlStarts(line),
                   {i \in 1..Len(line) : line[i] \in Whitespace}, 1)

\* re.sub(r'\n{3,}', replacement, text) on the lines of the text, the
\* replacement being `keep` newlines (0 or 2): newline j stands between
\* lines[j] and lines[j + 1], and two newlines are adjacent when the line
\* between them is empty.
RunEnd(lines) ==
    Least({e \in 1..(Len(lines) - 1) : e = Len(lines) - 1 \/ lines[e + 1] # <<>>})

RECURSIVE CollapseNewlines(_, _)
CollapseRun(lines, keep, e, rest) ==
    IF e >= 3
    THEN (IF keep = 0 THEN << lines[1] \o Head(rest) >> \o Tail(rest)
          ELSE << lines[1], <<>> >> \o rest)
    ELSE SubSeq(lines, 1, e) \o rest

CollapseNewlines(lines, keep) ==
    IF Len(lines) <= 1 THEN lines
    ELSE CollapseRun(lines, keep, RunEnd(lines),
                     CollapseNewlines(SubSeq(lines, RunEnd(lines) + 1, Len(lines)), keep))

\* The navigation keywords that a text of the model can hold: the others
\* are Hebrew phrases and Latin names, and no line of CleanLines spells one.
NavigationKeywords == { <<"-", "-", "-", "-", "-", "-", "-", "-">> }

AllIn(text, chars) == \A i \in 1..Len(text) : text[i] \in chars

\* The test of the loop over the lines, on the stripped line.  A time
\* (5 characters) and a date (8 characters) are shorter than MinLineLength.
IsMeaningfulTrimmed(trimmed_line) ==
    /\ Len(trimmed_line) >= MinLineLength
    /\ \A keyword \in NavigationKeywords : ~Contains(trimmed_line, keyword)
    /\ ~AllIn(trimmed_line, HebrewLetters)
    /\ ~AllIn(trimmed_line, {",", "'", "\""})

IsMeaningful(line) == IsMeaningfulTrimmed(Strip(line))

\* re.sub(r'^\s*[chars]+\s*$', '', text, flags=re.MULTILINE) on the lines of
\* a text without blank lines before a matching line.
BlankLine(line, trimmed_line, chars) ==
    IF trimmed_line # <<>> /\ AllIn(trimmed_line, chars) THEN <<>> ELSE line

BlankLinesOf(lines, chars) ==
    [i \in 1..Len(lines) |-> BlankLine(lines[i], Strip(lines[i]), chars)]

\* The cleaning up to the cut: patterns, lines, final cleanup.
FinalCleanup(clean_content) ==
    JoinLines(CollapseNewlines(
        BlankLinesOf(BlankLinesOf(SplitLines(clean_content), {"-", "="}),
                     HebrewLetters), 2))

MeaningfulLines(lines) == SelectSeq(lines, IsMeaningful)

RemoveForumPatterns(lines) ==
    CollapseNewlines([i \in 1..Len(lines) |-> RemoveUrls(lines[i])], 0)

Cleaned(content) ==
    FinalCleanup(Strip(JoinLines(MeaningfulLines(
        RemoveForumPatterns(SplitLines(content))))))

\* The cut at 1000 characters.
MutTruncate(clean_content) == clean_content

Truncate(clean_content) ==
    IF Len(clean_content) > MaxContentLength
    THEN SubSeq(clean_content, 1, MaxContentLength) \o Ellipsis
    ELSE clean_content

OrPlaceholder(clean_content) ==
    IF clean_content = <<>> THEN LinkPlaceholder ELSE clean_content

CleanArticleContent(content) ==
    IF content = <<>> THEN NoContentPlaceholder
    ELSE OrPlaceholder(Truncate(Cleaned(content)))

\* The lines of which the content texts are made, and the texts of at most
\* MaxCleanLines lines.
MaxCleanLines == 3

Repeat(c, n) == [i \in 1..n |-> c]

CleanLines ==
    { <<>>,
      Repeat("x", 5),
      Repeat("x", 12),
      Repeat("=", 10),
      Repeat("-", 10),
      Repeat("A", 10),
      Repeat(",", 10),
      <<" ">> \o Repeat("x", 12),
      UrlPrefix \o Repeat("x", 4),
      Repeat("x", 987),
      Repeat("x", 1001) }

CleanTexts ==
    { JoinLines(lines) : lines \in UNION { [1..n -> CleanLines] : n \in 1..MaxCleanLines } }

ApplyCleanArticleContent ==
    /\ fnResult = <<>>
    /\ fnResult' = <<"clean", CleanArticleContent(fnArg)>>
    /\ UNCHANGED <<fnArg, ingestVars, classifyVars, mainVars, runnerVars>>

InitClean ==
    /\ InitIngest /\ InitClassify /\ InitRunner /\ InitClients
    /\ fnArg \in CleanTexts
    /\ fnResult = <<>>

NextClean == ApplyCleanArticleContent

SpecClean == InitClean /\ [][NextClean]_vars

\* ---------------------------------------------------------------------
\* The content extractor, get_live_article_content.  A page is what the
\* parsed document answers: for every selector the text lines of the first
\* element it matches (or no element), and the text lines of the whole
\* page.  Texts are sequences of characters.
\* ---------------------------------------------------------------------

content_selectors ==
    <<"div.content", "div#content", "td.content", "div.post", "div.message",
      "td[valign=\"top\"]", "div.main-content", "div.article-content",
      "td.article", "div.forum-content", "table[width=\"100%\"]">>

\* The response indicators of the scan of a matched element.
ResponseIndicators ==
    { <<"ת", "ג", "ו", "ב", "ה", " ", "ע", "ם", " ", "צ", "י", "ט", "ו", "ט">>,
      <<"ה", "א", "ש", "כ", "ו", "ל">>,
      <<"מ", "ח", "ב", "ר">>,
      <<"ת", "א", "ר", "י", "ך", " ", "כ", "ת", "י", "ב", "ה">>,
      <<"צ", "י", "ט", "ו", "ט", ":">>,
      <<"ת", "ג", "ו", "ב", "ה", ":">>,
      <<"מ", "ש", "ת", "מ", "ש", ":">>,
      <<"ה", "ו", "ד", "ע", "ה", ":">>,
      <<"פ", "ו", "ר", "ו", "ם", ":">>,
      <<"ב", "ח", "ר", " ", "פ", "ו", "ר", "ו", "ם">>,
      <<"ב", "י", "ת", " ", "ה", "מ", "ד", "ר", "ש">>,
      <<"ס", "ק", "ו", "פ", "י", "ם">>,
      <<"א", "ש", "כ", "ו", "ל", " ", "מ", "ס", "פ", "ר">> }

\* The response indicators of the scan of the whole page.
FallbackIndicators ==
    { <<"ת", "ג", "ו", "ב", "ה", " ", "ע", "ם", " ", "צ", "י", "ט", "ו", "ט">>,
      <<"ה", "א", "ש", "כ", "ו", "ל">>,
      <<"מ", "ח", "ב", "ר">>,
      <<"ת", "א", "ר", "י", "ך", " ", "כ", "ת", "י", "ב", "ה">> }

\* navigation_keywords of is_forum_navigation
ForumNavigationKeywords ==
    { <<"ב", "י", "ת", " ", "ה", "מ", "ד", "ר", "ש">>,
      <<"ה", "ר", "ג", "ע", " ", "ק", "נ", "י", "ת", "י">>,
      <<"ב", "נ", "י", " ", "ה", "-", "2", "0">>,
      <<"ס", "ק", "ו", "פ", "י", "ם">>,
      <<"א", "ש", "כ", "ו", "ל", " ", "מ", "ס", "פ", "ר">>,
      <<"ב", "ח", "ר", " ", "פ", "ו", "ר", "ו", "ם">>,
      <<"נ", "ו", "ש", "א", " ", "#">>,
      <<"ח", "ב", "ר", " ", "מ", "ת", "א", "ר", "י", "ך">>,
      <<"ה", "ו", "ד", "ע", "ו", "ת">>,
      <<"מ", "ד", "ר", "ג", "י", "ם">>,
      <<"נ", "ק", "ו", "ד", "ו", "ת">>,
      <<"ר", "א", "ה", " ", "מ", "ש", "ו", "ב">>,
      <<"מ", "נ", "ה", "ל">>,
      <<"ס", "ג", "ן", " ", "ה", "מ", "נ", "ה", "ל">>,
      <<"מ", "פ", "ק", "ח">>,
      <<"ע", "י", "ת", "ו", "נ", "א", "י">>,
      <<"צ", "ל", "\"", "ש">>,
      <<"כ", "ו", "ת", "ר", "ו", "ת">>,
      <<"ש", "ע", "ה">>,
      <<"ה", "כ", "ו", "ת", "ב">>,
      <<"א", "ל", " ", "ל", "ו", "ב", "י">>,
      <<"ה", "ח", "ו", "פ", "ש", "ה", " ", "ה", "ב", "א", "ה">>,
      <<"ל", "ו", "ח", " ", "ש", "נ", "ה", " ", "ע", "ב", "ר", "י">>,
      <<"D", "o", "w", "n", "l", "o", "a", "d", "s">>,
      <<"ש", "י", "ת", "ו", "ף">>,
      <<"מ", "ו", "ז", "י", "ק", "ה">>,
      <<"ס", "ר", "ט", "י", "ם">>,
      <<"צ", "י", "ל", "ו", "ם">>,
      <<"מ", "ו", "ט", "ו", "ר", "י", "ק", "ה">>,
      <<"ל", "ו", "ב", "י">>,
      <<"ח", "ו", "פ", "ש", "ה">>,
      <<"B", "o", "o", "k", "i", "n", "g", ".", "c", "o", "m">>,
      <<"K", "i", "w", "i">>,
      <<"S", "k", "y", "s", "c", "a", "n", "n", "e", "r">>,
      <<"T", "r", "i", "p", "A", "d", "v", "i", "s", "o", "r">>,
      <<"ג", "י", "ר", "ס", "ת", " ", "ה", "ד", "פ", "ס", "ה">>,
      <<"ק", "ב", "ו", "צ", "ו", "ת", " ", "ד", "י", "ו", "ן">>,
      <<"א", "ל", " ", "ל", "ו", "ב", "י", " ", "ה", "פ", "ו", "ר", "ו", "מ", "י", "ם">>,
      <<"ה", "ח", "ו", "פ", "ש", "ה", " ", "ה", "ב", "א", "ה", " ", "ש", "ל", "ך", " ", "מ", "ת", "ח", "י", "ל", "ה", " ", "כ", "א", "ן">>,
      <<"-", "-", "-", "-", "-", "-", "-", "-">>,
      <<"ב", "י", "ק", "ו", "ר", "ת", " ", "ת", "ק", "ש", "ו", "ר", "ת">>,
      <<"ע", "י", "ת", "ו", "נ", "ו", "ת", " ", "ז", "ר", "ה">>,
      <<"ה", "פ", "ו", "ר", "ו", "ם", " ", "ה", "א", "ק", "ס", "ק", "ל", "ו", "ס", "י", "ב", "י">>,
      <<"ב", "י", "ט", "ק", "ו", "י", "ן", " ", "ו", "מ", "ט", "ב", "ע", "ו", "ת", " ", "ק", "ר", "י", "פ", "ט", "ו">>,
      <<"כ", "ו", "ש", "ר", " ", "ו", "פ", "י", "ת", "ו", "ח", " ", "ג", "ו", "ף">> }

\* any(indicator in line for indicator in indicators)
AnyIn(line, indicators) == \E k \in indicators : Contains(line, k)

is_forum_navigation(line) == AnyIn(line, ForumNavigationKeywords)

\* The length a selector's content must exceed to end the search, and
\* below which the whole page is scanned.
MinContent == 200

\* The length a line must exceed to be collected.
MinBodyLine == 20

\* The length a line of the whole page must exceed to start the collection.
MinStartLine == 30

StrippedAt(lines, i) == IF i <= Len(lines) THEN Strip(lines[i]) ELSE <<>>

\* The scan of a matched element: the substantial lines before the first
\* line that holds a response indicator.
RECURSIVE MainArticleFrom(_, _, _)
MainArticleFrom(lines, i, line) ==
    IF i > Len(lines) THEN <<>>
    ELSE IF line = <<>>
    THEN MainArticleFrom(lines, i + 1, StrippedAt(lines, i + 1))
    ELSE IF AnyIn(line, ResponseIndicators) THEN <<>>
    ELSE (IF Len(line) > MinBodyLine /\ ~is_forum_navigation(line) THEN <<line>> ELSE <<>>)
         \o MainArticleFrom(lines, i + 1, StrippedAt(lines, i + 1))

MainArticleLines(lines) == MainArticleFrom(lines, 1, StrippedAt(lines, 1))

\* No element matches the selector.
NoElement == <<>>

\* The test that ends the loop over the selectors.
SelectorFound(content) == content # <<>> /\ Len(content) > MinContent

\* The loop over content_selectors: content is overwritten by every
\* selector that matches an element, and the loop ends at the first one
\* whose content is longer than MinContent.
RECURSIVE SelectFrom(_, _, _)
SelectNext(elems, k, content) ==
    IF SelectorFound(content) THEN content ELSE SelectFrom(elems, k + 1, content)

SelectFrom(elems, k, content) ==
    IF k > Len(content_selectors) THEN content
    ELSE IF elems[k] = NoElement THEN SelectFrom(elems, k + 1, content)
    ELSE SelectNext(elems, k, JoinLines(MainArticleLines(elems[k][1])))

StructuralContent(elems) == SelectFrom(elems, 1, <<>>)

\* The scan of the whole page: navigation lines are skipped, collection
\* starts at the first line longer than MinStartLine and ends at the first
\* line after that which holds a response indicator.
RECURSIVE MainContentFrom(_, _, _, _)
MainContentStep(lines, i, line, content_started) ==
    IF ~content_started THEN MainContentFrom(lines, i + 1, StrippedAt(lines, i + 1), FALSE)
    ELSE IF AnyIn(line, FallbackIndicators) THEN <<>>
    ELSE (IF Len(line) > MinBodyLine /\ ~is_forum_navigation(line) THEN <<line>> ELSE <<>>)
         \o MainContentFrom(lines, i + 1, StrippedAt(lines, i + 1), TRUE)

MainContentFrom(lines, i, line, content_started) ==
    IF i > Len(lines) THEN <<>>
    ELSE IF line = <<>> \/ is_forum_navigation(line)
    THEN MainContentFrom(lines, i + 1, StrippedAt(lines, i + 1), content_started)
    ELSE MainContentStep(lines, i, line, content_started \/ Len(line) > MinStartLine)

MainContentLines(lines) == MainContentFrom(lines, 1, StrippedAt(lines, 1), FALSE)

\* The whole page is scanned when the selectors left no content or less
\* than MinContent characters.
NeedsFallback(content) == content = <<>> \/ Len(content) < MinContent

ContentOf(content, all_text) ==
    IF NeedsFallback(content) THEN JoinLines(MainContentLines(all_text)) ELSE content

\* Lines of a page: an article body, a paragraph, a short line, a quoted
\* reply, the author heading and a line of the forum list.
BodyLine == Repeat("a", 210)

ParagraphLine == Repeat("b", 40)

ShortLine == Repeat("c", 25)

QuoteLine == <<"צ", "י", "ט", "ו", "ט", ":">> \o Repeat("d", 30)

AuthorLine == <<"מ", "ח", "ב", "ר">>

ForumLine == <<"ס", "ק", "ו", "פ", "י", "ם">> \o Repeat("e", 30)

\* The selectors at which the pages that are followed have an element.
SelectorSlots == {1, 11}

ElemTexts ==
    { <<BodyLine>>, <<ParagraphLine>>, <<ParagraphLine, QuoteLine, BodyLine>>,
      <<QuoteLine, BodyLine>>, <<ShortLine, ForumLine, ParagraphLine>> }

PageElems ==
    { [k \in 1..Len(content_selectors) |-> IF k \in SelectorSlots THEN e[k] ELSE NoElement] :
        e \in [SelectorSlots -> {NoElement} \cup { <<t>> : t \in ElemTexts }] }

PageHeads == { <<>>, <<ParagraphLine>>, <<AuthorLine>>, <<ForumLine, ShortLine>> }

PageTails == { <<>>, <<BodyLine>>, <<QuoteLine, BodyLine>>, <<AuthorLine, BodyLine>> }

ExtractPages == [elems : PageElems, head : PageHeads, tail : PageTails]

\* soup.get_text of the whole page: what precedes the matched elements,
\* their texts and what follows them.
RECURSIVE ElemLines(_, _)
ElemLines(elems, k) ==
    IF k > Len(elems) THEN <<>>
    ELSE (IF elems[k] = NoElement THEN <<>> ELSE elems[k][1]) \o ElemLines(elems, k + 1)

AllText(page) == page.head \o ElemLines(page.elems, 1) \o page.tail

GetLiveArticleContent(page) == ContentOf(StructuralContent(page.elems), AllText(page))

ApplyGetLiveArticleContent ==
    /\ fnResult = <<>>
    /\ fnResult' = <<"content", GetLiveArticleContent(fnArg), StructuralContent(fnArg.elems)>>
    /\ UNCHANGED <<fnArg, ingestVars, classifyVars, mainVars, runnerVars>>

InitExtract ==
    /\ InitIngest /\ InitClassify /\ InitRunner /\ InitClients
    /\ fnArg \in ExtractPages
    /\ fnResult = <<>>

NextExtract == ApplyGetLiveArticleContent

SpecExtract == InitExtract /\ [][NextExtract]_vars

(***************************************************************************)
(* Properties of the ingestion cycle.                                      *)
(***************************************************************************)
\* The item has the url or the title of a stored row.
MatchesStored(db, title, url) ==
    \E i \in 1..Len(db) : db[i].url = url \/ db[i].title = title

\* Scraper s takes the step of the named place of its cycle.
LeavesPreCheck(s) ==
    spc[s] = "precheck" /\ (spc'[s] # "precheck" \/ idx'[s] # idx[s])
LeavesSaveCheck(s) == spc[s] = "save" /\ spc'[s] # "save"
LeavesInsert(s) == spc[s] = "insert" /\ spc'[s] # "insert"

\* C1: after any number of ingestion cycles run one after the other, no two
\* stored items share a fingerprint, a url or a title.
C1_NoTwoItemsShare ==
    \A i, j \in 1..Len(store) :
        i # j => /\ store[i].hash_id # store[j].hash_id
                 /\ store[i].url # store[j].url
                 /\ store[i].title # store[j].title

\* C2 as stated: the pre-check answers "exists" exactly when a stored item
\* has the url or the title of the candidate, and it leaves the store alone.
C2_ExistsIffUrlOrTitleStored ==
    [][\A s \in Scrapers :
          LeavesPreCheck(s) =>
              /\ (chk'[s] = "True") <=>
                     MatchesStored(store, item[s].title, item[s].url)
              /\ store' = store]_vars

\* C2 amended: the pre-check answers "exists" exactly when its queries ran
\* and a stored item has the url or the title of the candidate; when a
\* query raises it answers "does not exist"; it leaves the store alone.
C2_ExistsIffLookupRanAndMatch ==
    [][\A s \in Scrapers :
          LeavesPreCheck(s) =>
              /\ chk'[s] \in {"True", "False"}
              /\ (chk'[s] = "True") <=>
                     /\ lookup'[s] = "ok"
                     /\ MatchesStored(store, item[s].title, item[s].url)
              /\ store' = store]_vars

\* A pre-check whose queries ran answered "exists" for the first candidate
\* of the cycle, whose title is stored under another url only.
C2_Witness ==
    /\ spc[1] = "precheck" /\ idx[1] = 2
    /\ chk[1] = "True" /\ lookup[1] = "ok"
    /\ \E i \in 1..Len(store) : store[i].title = recent[1][1].title
    /\ \A i \in 1..Len(store) : store[i].url # recent[1][1].url

\* C3: save_article_to_db judges with the rule of the pre-check: an item
\* with the url or the title of a stored item is judged existing by the
\* check of the save, and is not inserted.
C3_SaveJudgesByUrlOrTitle ==
    [][\A s \in Scrapers :
          /\ (LeavesSaveCheck(s) /\ spc'[s] = "insert") =>
                 ~MatchesStored(store, item[s].title, item[s].url)
          /\ (LeavesInsert(s) /\ store' # store) =>
                 ~MatchesStored(store, item[s].title, item[s].url)]_vars

\* C4: when two concurrent cycles both pass the pre-check and the check of
\* the save for one (title, url), the store never holds two items of one
\* fingerprint; the INSERT that finds the fingerprint stored adds nothing,
\* the save returns False, and the loop of that cycle goes on from the same
\* position.
C4_OneInsertWins ==
    /\ [](\A i, j \in 1..Len(store) :
              i # j => store[i].hash_id # store[j].hash_id)
    /\ [][\A s \in Scrapers :
             (/\ LeavesInsert(s)
              /\ \E i \in 1..Len(store) :
                     store[i].hash_id = item[s].title \o item[s].url)
             => /\ store' = store
                /\ saved'[s] \in {"exists", "error"}
                /\ spc'[s] = "sleep"
                /\ idx'[s] = idx[s] /\ recent'[s] = recent[s]]_vars

\* Both cycles reached the INSERT for one (title, url); one inserted and
\* returned True, the other was refused and returned False.
C4_Witness ==
    \E s, t \in Scrapers :
        /\ s # t
        /\ spc[s] = "sleep" /\ saved[s] = "true"
        /\ spc[t] = "sleep" /\ saved[t] = "error"
        /\ chk[s] = "False" /\ chk[t] = "False"
        /\ item[s].title = item[t].title /\ item[s].url = item[t].url
        /\ Cardinality({ i \in 1..Len(store) :
               store[i].hash_id = item[t].title \o item[t].url }) = 1

\* The age in seconds of a listing row's timestamp is at most 86400.
AtMostOneDayOld(dt) == dt # <<>> /\ Now - dt[1] <= 86400

InPipeline(p) ==
    ppc[p] \in {"stage1", "stage2", "retry", "stage3", "stage4", "update"}

\* C6: in batches run one after the other, the state of an item changes
\* only from Unprocessed (0) to Relevant (1) or NotRelevant (2), its
\* analysis is written only while it has none, and an item that left
\* Unprocessed is neither selected by a batch nor written again.
C6_ClassifiedOnce ==
    /\ [](\A p \in Procs :
             InPipeline(p) =>
                 \A k \in pidx[p]..Len(articles[p]) :
                     store[articles[p][k]].isProcessed = 0)
    /\ [][\A i \in 1..Len(store) :
             /\ store[i].isProcessed # 0 => store'[i] = store[i]
             /\ store'[i].isProcessed # store[i].isProcessed =>
                    store[i].isProcessed = 0 /\ store'[i].isProcessed \in {1, 2}
             /\ store'[i].process_data # store[i].process_data =>
                    store[i].process_data = <<>>]_vars

\* A later batch is working on an Unprocessed item, having left out an item
\* that an earlier batch classified.
C6_Witness ==
    /\ InPipeline(1)
    /\ \E i \in 1..Len(store) :
           /\ store[i].isProcessed # 0
           /\ \A k \in 1..Len(articles[1]) : articles[1][k] # i

\* C7: an item has an analysis exactly when its state is not Unprocessed;
\* a newly stored item is Unprocessed and has none; a write sets the state
\* and the analysis together.
C7_AnalysisIffClassified ==
    /\ [](\A i \in 1..Len(store) :
             (store[i].process_data # <<>>) <=> (store[i].isProcessed # 0))
    /\ [][/\ Len(store') > Len(store) =>
                 /\ store'[Len(store')].isProcessed = 0
                 /\ store'[Len(store')].process_data = <<>>
          /\ \A i \in 1..Len(store) :
                 (store'[i].isProcessed # store[i].isProcessed) <=>
                     (store'[i].process_data # store[i].process_data)]_vars

\* The store holds a classified item with its analysis next to an
\* Unprocessed item without one.
C7_Witness ==
    \E i, j \in 1..Len(store) :
        /\ store[i].isProcessed = 1 /\ store[i].process_data # <<>>
        /\ store[j].isProcessed = 0 /\ store[j].process_data = <<>>

\* The calls of the model made for the item, without the delays.
ModelCalls(p) == SelectSeq(calls[p], LAMBDA c : c # "sleep")

StageOf(c) ==
    CASE c = "relevance" -> 1
      [] c = "research" -> 2
      [] c = "analysis" -> 3
      [] c = "article" -> 4

\* Relevance first, then each call is of the next stage, or is the second
\* call of the research stage.
InStageOrder(cs) ==
    /\ cs # <<>> => cs[1] = "relevance"
    /\ \A k \in 1..(Len(cs) - 1) :
           \/ StageOf(cs[k + 1]) = StageOf(cs[k]) + 1
           \/ cs[k] = "research" /\ cs[k + 1] = "research"

StagesInOrder ==
    \A p \in Procs :
        /\ InStageOrder(ModelCalls(p))
        /\ ~pipe[p].is_relevant => ModelCalls(p) = <<"relevance">>

\* C8 as stated: for one item the stages are called only in the order
\* relevance, research, technical analysis, rewrite; when Stage 1 answers
\* not relevant, no call of Stage 2, 3 or 4 is made and the item ends
\* NotRelevant.
C8_OrderAndEndsNotRelevant ==
    /\ StagesInOrder
    /\ \A p \in Procs :
           (ppc[p] = "next" /\ ~pipe[p].is_relevant) =>
               store[articles[p][pidx[p]]].isProcessed = 2

\* C8 amended: the order of the stages and the short circuit hold; the item
\* ends NotRelevant when the update of the store ran, and stays Unprocessed
\* when the update raised.
C8_OrderAndEndsNotRelevantIfUpdated ==
    /\ StagesInOrder
    /\ \A p \in Procs :
           (ppc[p] = "next" /\ ~pipe[p].is_relevant) =>
               /\ updated[p] = "ok" =>
                      store[articles[p][pidx[p]]].isProcessed = 2
               /\ updated[p] = "error" =>
                      store[articles[p][pidx[p]]].isProcessed = 0

\* Stage 1 answered not relevant, the only call made was the relevance
\* call, and the update that ran left the item NotRelevant.
C8_Witness ==
    /\ ppc[1] = "next" /\ ~pipe[1].is_relevant
    /\ calls[1] = <<"relevance">>
    /\ updated[1] = "ok"
    /\ store[articles[1][pidx[1]]].isProcessed = 2

\* The text holds, at some position, one of the five words of the list:
\* sport, entertainment, business, routine, economic.
HoldsListedWord(text) ==
    \E w \in { <<"s", "p", "w", "r", "T">>, <<"b", "y", "d", "w", "r">>,
               <<"e", "s", "q", "y", "M">>, <<"S", "g", "r", "t", "y">>,
               <<"k", "l", "k", "l", "y">> } :
        \E at \in 1..Len(text) :
            /\ at + 4 <= Len(text)
            /\ \A k \in 1..5 : text[at + k - 1] = w[k]

\* C9: Stage 1 answers isRelevant = false exactly when the text of the
\* response holds one of the five listed words as a substring.
C9_NotRelevantIffListedWord ==
    (fnResult # <<>> /\ fnResult[1][2] = fnArg) =>
        ((fnResult[1][1] = FALSE) <=> HoldsListedWord(fnArg))

\* A response that speaks of a "sportive" subject (the word sport with a
\* suffix, after other words) was answered not relevant.
C9_Witness ==
    /\ fnResult # <<>> /\ fnResult[1][2] = fnArg
    /\ fnArg = <<"p", "w", "l", "y", "T", "y", "s", "p", "w", "r", "T">>
    /\ fnResult[1][1] = FALSE

\* The research result fails the gate: it holds none of the source markers,
\* or it is shorter than 150 characters, or it holds the "nothing found"
\* marker.
FailsResearchGate(text) ==
    \/ ~ \E m \in QualityIndicators : Contains(text, m)
    \/ Len(text) < 150
    \/ Contains(text, NotFoundMarker)

ResearchCalls(p) == Len(SelectSeq(calls[p], LAMBDA c : c = "research"))

\* C10: Stage 2 calls the model at most twice for an item; the second call
\* is made exactly when the result of the first fails the gate; the result
\* of the second call is what the stage returns, whatever it is.
C10_AtMostOneRetry ==
    \A p \in Procs :
        /\ ResearchCalls(p) <= 2
        /\ ppc[p] = "retry" =>
               ResearchCalls(p) = 1 /\ FailsResearchGate(TextOf(pipe[p].first))
        /\ ppc[p] \in {"stage3", "stage4", "update", "next"} /\ pipe[p].is_relevant =>
               /\ (ResearchCalls(p) = 2) <=>
                      (pipe[p].first # "" /\ FailsResearchGate(TextOf(pipe[p].first)))
               /\ ResearchCalls(p) = 1 =>
                      pipe[p].research_findings \in {pipe[p].first, "res_failed"}

\* The first result was one character short of 150, the model was called a
\* second time, and the second result, which fails the gate as well, was
\* returned by the stage.
C10_Witness ==
    /\ ppc[1] = "stage3"
    /\ pipe[1].first = "res_short"
    /\ Len(TextOf("res_short")) = 149
    /\ ResearchCalls(1) = 2
    /\ pipe[1].research_findings = "res_nosource"

\* The text begins with the given text.
BeginsWith(text, beginning) ==
    Len(text) >= Len(beginning) /\ SubSeq(text, 1, Len(beginning)) = beginning

\* What the pipeline does with the failed model calls of the item: Stage 1
\* answers relevant, Stages 2, 3 and 4 return their "failed" texts, and all
\* four stages are called.
FailuresAbsorbed(p) ==
    /\ "relevance" \in failed[p] => pipe[p].is_relevant
    /\ "research" \in failed[p] =>
           TextOf(pipe[p].research_findings) =
               <<"R","e","s","e","a","r","c","h"," ","f","a","i","l","e","d">>
    /\ "analysis" \in failed[p] =>
           BeginsWith(TextOf(pipe[p].technical_analysis),
               <<"T","e","c","h","n","i","c","a","l"," ","a","n","a","l","y","s","i","s",
                 " ","f","a","i","l","e","d">>)
    /\ "article" \in failed[p] =>
           BeginsWith(TextOf(pipe[p].final_article),
               <<"J","o","u","r","n","a","l","i","s","t","i","c"," ",
                 "w","r","i","t","i","n","g"," ","f","a","i","l","e","d">>)
    /\ (failed[p] # {} /\ ppc[p] \in {"update", "next"}) =>
           { ModelCalls(p)[k] : k \in 1..Len(ModelCalls(p)) } =
               {"relevance", "research", "analysis", "article"}

\* C11 as stated: when model calls of an item fail, Stage 1 answers
\* relevant, Stages 2 to 4 return their "failed" texts, every later stage
\* still runs, and the item is stored as processed.
C11_FailuresAbsorbedAndProcessed ==
    \A p \in Procs :
        /\ FailuresAbsorbed(p)
        /\ (failed[p] # {} /\ ppc[p] = "next") =>
               /\ store[articles[p][pidx[p]]].isProcessed = 1
               /\ store[articles[p][pidx[p]]].process_data # <<>>

\* C11 amended: the failures are absorbed as stated; the item is stored as
\* processed when the update of the store ran, and stays Unprocessed when
\* the update raised.
C11_FailuresAbsorbedAndProcessedIfUpdated ==
    \A p \in Procs :
        /\ FailuresAbsorbed(p)
        /\ (failed[p] # {} /\ ppc[p] = "next") =>
               /\ updated[p] = "ok" =>
                      /\ store[articles[p][pidx[p]]].isProcessed = 1
                      /\ store[articles[p][pidx[p]]].process_data # <<>>
               /\ updated[p] = "error" =>
                      store[articles[p][pidx[p]]].isProcessed = 0

\* The model call of every stage failed, all four stages were called, and
\* the item was stored as Relevant.
C11_Witness ==
    /\ ppc[1] = "next"
    /\ failed[1] = {"relevance", "research", "analysis", "article"}
    /\ Len(ModelCalls(1)) = 4
    /\ updated[1] = "ok"
    /\ store[articles[1][pidx[1]]].isProcessed = 1

\* C12: when a model client failed to initialize (no Anthropic client, or
\* no Grok client in the PostgreSQL variant), the processor makes no model
\* call and no item leaves Unprocessed.
C12_DeclinesWithoutClient ==
    (~anthropic_client \/ (variant = "postgres" /\ ~grok_client)) =>
        /\ \A p \in Procs : ModelCalls(p) = <<>>
        /\ \A i \in 1..Len(store) : store[i].isProcessed = 0

\* The stored result holds a relevance reason, at the top or inside its
\* `analysis` entry.
CarriesReason(d) ==
    \/ "relevance_reason" \in DOMAIN d
    \/ "reason" \in DOMAIN d
    \/ "analysis" \in DOMAIN d /\ "reason" \in DOMAIN d.analysis

\* C13: every stored analysis result carries a relevance reason; the
\* research notes, the technical analysis and the final article are all
\* present when is_relevant is true and all absent when it is false.
C13_ResultFields ==
    \A i \in 1..Len(store) :
        store[i].process_data # <<>> =>
            LET d == store[i].process_data[1]
                texts == {"research_notes", "technical_analysis", "journalistic_article"}
            IN /\ CarriesReason(d)
               /\ d.is_relevant => texts \subseteq DOMAIN d
               /\ ~d.is_relevant => texts \cap DOMAIN d = {}

(***************************************************************************)
(* Properties of datetime recovery.                                        *)
(***************************************************************************)
\* The numbers of a match are those of a calendar date, of a time of day.
IsCalendarDate(d) ==
    /\ d.month \in 1..12
    /\ d.day >= 1
    /\ d.day <= (IF d.month = 2 THEN (IF d.year % 4 = 0 THEN 29 ELSE 28)
                 ELSE IF d.month \in {4, 6, 9, 11} THEN 30 ELSE 31)
IsTimeOfDay(t) == t.hour \in 0..23 /\ t.minute \in 0..59

\* What each strategy yields on the text: a timestamp, or <<>> when its
\* pattern is absent or the numbers of its match are invalid.
YieldCombined(text) ==
    LET m == SearchDateTime(text)
    IN IF m # <<>> /\ IsCalendarDate(m[1]) /\ IsTimeOfDay(m[1])
       THEN << [year |-> 2000 + m[1].year, month |-> m[1].month,
                day |-> m[1].day, hour |-> m[1].hour, minute |-> m[1].minute] >>
       ELSE <<>>
YieldSeparate(text) ==
    LET d == SearchDate(text)
        t == SearchTime(text)
    IN IF d # <<>> /\ t # <<>> /\ IsCalendarDate(d[1]) /\ IsTimeOfDay(t[1])
       THEN << [year |-> 2000 + d[1].year, month |-> d[1].month,
                day |-> d[1].day, hour |-> t[1].hour, minute |-> t[1].minute] >>
       ELSE <<>>
YieldDate(text, hour, minute) ==
    LET d == SearchDate(text)
    IN IF d # <<>> /\ IsCalendarDate(d[1])
       THEN << [year |-> 2000 + d[1].year, month |-> d[1].month,
                day |-> d[1].day, hour |-> hour, minute |-> minute] >>
       ELSE <<>>
YieldTime(text) ==
    LET t == SearchTime(text)
    IN IF t # <<>> /\ IsTimeOfDay(t[1])
       THEN << [year |-> WallClock.year, month |-> WallClock.month,
                day |-> WallClock.day, hour |-> t[1].hour,
                minute |-> t[1].minute] >>
       ELSE <<>>

\* The first of the timestamps that is one, <<>> when none is.
FirstYield(yields) ==
    IF \A k \in 1..Len(yields) : yields[k] = <<>> THEN <<>>
    ELSE yields[CHOOSE k \in 1..Len(yields) :
                    yields[k] # <<>> /\ \A h \in 1..(k - 1) : yields[h] = <<>>]

\* Every match that recovery looks at in the text has valid numbers.
NumbersValid(text) ==
    /\ SearchDateTime(text) # <<>> =>
           IsCalendarDate(SearchDateTime(text)[1]) /\ IsTimeOfDay(SearchDateTime(text)[1])
    /\ SearchDate(text) # <<>> => IsCalendarDate(SearchDate(text)[1])
    /\ SearchTime(text) # <<>> => IsTimeOfDay(SearchTime(text)[1])

\* C14: on a row whose matches have valid numbers, recovery returns what
\* the first applicable strategy yields, in the order combined pattern,
\* separate date and time, date alone with the time of the wall clock, time
\* alone with the date of today; a combined DD.MM.YY HH:MM pattern yields
\* that date and time with the year 2000+YY; a row with no pattern yields
\* no timestamp.
C14_FirstApplicableStrategy ==
    (fnResult # <<>> /\ fnResult[1] = "row") =>
        /\ NumbersValid(fnArg) =>
               fnResult[2] =
                   IF SearchDateTime(fnArg) # <<>> THEN YieldCombined(fnArg)
                   ELSE IF SearchDate(fnArg) # <<>> /\ SearchTime(fnArg) # <<>>
                   THEN YieldSeparate(fnArg)
                   ELSE IF SearchDate(fnArg) # <<>>
                   THEN YieldDate(fnArg, WallClock.hour, WallClock.minute)
                   ELSE YieldTime(fnArg)
        /\ (SearchDate(fnArg) = <<>> /\ SearchTime(fnArg) = <<>>) =>
               fnResult[2] = <<>>

\* The row "05.01.25 10:30" yielded 5 January 2025, 10:30.
C14_Witness ==
    /\ fnArg = <<"0","5",".","0","1",".","2","5", " ", "1","0",":","3","0">>
    /\ fnResult = <<"row", << [year |-> 2025, month |-> 1, day |-> 5,
                               hour |-> 10, minute |-> 30] >> >>

\* C15: when the numbers of a matched pattern are invalid, that strategy
\* yields nothing and recovery goes on to the next strategy in priority
\* order; it reports no timestamp only when no later strategy yields a
\* valid one (on a row: combined, separate, date alone, time alone; on an
\* article page: combined, date alone, time alone).
C15_FallsThroughToLaterStrategy ==
    /\ (fnResult # <<>> /\ fnResult[1] = "row") =>
           fnResult[2] =
               FirstYield(<< YieldCombined(fnArg), YieldSeparate(fnArg),
                             YieldDate(fnArg, WallClock.hour, WallClock.minute),
                             YieldTime(fnArg) >>)
    /\ (fnResult # <<>> /\ fnResult[1] = "page") =>
           fnResult[2] =
               FirstYield(<< YieldCombined(fnArg), YieldDate(fnArg, 0, 0),
                             YieldTime(fnArg) >>)

(***************************************************************************)
(* Properties of one ingestion cycle.                                      *)
(***************************************************************************)
\* C16: a candidate whose fetch fails or whose extraction yields no content
\* is skipped: the step that fetched it leaves the store, the collected
\* items and the insert log as they were and goes to the delay; no stored
\* row has empty content; and from the delay the cycle goes on to the next
\* candidate when there is one, and to the return when there is none.
C16_NoContentSkippedCycleGoesOn ==
    /\ [](\A k \in 1..Len(store) : store[k].content # "")
    /\ [][(spc[1] = "fetch" /\ item'[1].content = "") =>
              /\ spc'[1] = "sleep"
              /\ UNCHANGED <<store, events, insertLog, saved>>]_vars
    /\ [][spc[1] = "sleep" =>
              IF idx[1] < Len(recent[1])
              THEN /\ spc'[1] = "precheck"
                   /\ idx'[1] = idx[1] + 1
                   /\ item'[1] = recent[1][idx[1] + 1]
              ELSE spc'[1] = "done"]_vars

\* The first candidate was fetched and skipped, and the cycle is at the
\* second one.
C16_Witness ==
    /\ spc[1] = "precheck"
    /\ idx[1] = 2
    /\ recent[1][1].src \in fetchLog[1]
    /\ insertLog[1] = {}
    /\ events[1] = <<>>
    /\ store = <<>>

\* Every request of the listing page that the cycle made failed.
ListingFetchFailed(made) == made # <<>> /\ \A k \in 1..Len(made) : ~made[k]

\* C17: the listing fetch fails only after its single request (SQLite
\* variant) or after all 3 requests (PostgreSQL variant), no request follows
\* one that succeeded, and a cycle whose listing fetch failed has ended with
\* an empty batch, without a request of an article page and without a
\* change of the store.
C17_ListingFailureEndsCycleEmpty ==
    /\ [](/\ Len(attempts[1]) <= (IF variant = "postgres" THEN 3 ELSE 1)
          /\ \A k \in 1..(Len(attempts[1]) - 1) : ~attempts[1][k]
          /\ ListingFetchFailed(attempts[1]) =>
                 /\ Len(attempts[1]) = (IF variant = "postgres" THEN 3 ELSE 1)
                 /\ spc[1] = "done"
                 /\ batch[1] = <<>>
                 /\ fetchLog[1] = {}
                 /\ insertLog[1] = {})
    /\ [][ListingFetchFailed(attempts'[1]) => store' = store]_vars

\* A cycle of the PostgreSQL variant whose three requests failed.
C17_Witness ==
    /\ variant = "postgres"
    /\ attempts[1] = <<FALSE, FALSE, FALSE>>
    /\ spc[1] = "done"
    /\ batch[1] = <<>>

\* C18: every item of the batch that scrape_live_news returned was inserted
\* into the store during that cycle; an item that the persistence-time
\* check reported as existing, or whose insert failed, is not in the batch.
C18_BatchHoldsOnlyInserted ==
    spc[1] = "done" =>
        \A k \in 1..Len(batch[1]) : batch[1][k].src \in insertLog[1]

\* publishedAt a is older than publishedAt b, an unrecoverable one being
\* older than every timestamp.
Older(a, b) ==
    IF b = NoTimestamp THEN FALSE
    ELSE IF a = NoTimestamp THEN TRUE
    ELSE a[1] < b[1]

C20_NonEmptyAtMost1003 ==
    (fnResult # <<>> /\ fnResult[1] = "clean") =>
        /\ fnResult[2] # <<>>
        /\ Len(fnResult[2]) <= 1003
        /\ Len(fnResult[2]) > 1000 =>
               /\ Len(fnResult[2]) = 1003
               /\ SubSeq(fnResult[2], 1001, 1003) = <<".", ".", ".">>
        /\ fnArg = <<>> => fnResult[2] = NoContentPlaceholder
        /\ (fnArg # <<>> /\ Cleaned(fnArg) = <<>>) => fnResult[2] = LinkPlaceholder

\* A text of 1975 characters was cut to 1003.
C20_Witness ==
    /\ Len(fnArg) = 1975
    /\ fnResult # <<>>
    /\ Len(fnResult[2]) = 1003

(***************************************************************************)
(* Properties of interrupted and overlapping batches.                      *)
(***************************************************************************)
\* The item is in a terminal state with the whole result of its pipeline,
\* or Unprocessed with no analysis.
TerminalWithAnalysis(row) ==
    /\ row.isProcessed \in {1, 2}
    /\ row.process_data # <<>>
    /\ row.isProcessed = 1 =>
           /\ row.process_data[1].is_relevant
           /\ row.process_data[1].technical_analysis # ""
           /\ row.process_data[1].journalistic_article # ""
           /\ row.process_data[1].research_notes # ""
    /\ row.isProcessed = 2 =>
           /\ ~row.process_data[1].is_relevant
           /\ row.process_data[1].analysis.reason # ""

UnprocessedWithout(row) == row.isProcessed = 0 /\ row.process_data = <<>>

\* The step ends a run of processor p by an interruption; the step starts
\* a batch of processor p.
IsInterruption(p) == ppc[p] \notin {"idle", "done"} /\ ppc'[p] = "idle"
IsBatchStart(p) == ppc[p] = "idle" /\ ppc'[p] # "idle"

\* The ids are those of the Unprocessed items of the store, each once.
ExactlyUnprocessed(ids, db) ==
    /\ \A i \in 1..Len(db) :
           (\E k \in 1..Len(ids) : ids[k] = i) <=> db[i].isProcessed = 0
    /\ \A k, h \in 1..Len(ids) : ids[k] = ids[h] => k = h

\* C21: an interruption of a batch leaves the store as it is; every item is
\* then either in a terminal state with its complete analysis or
\* Unprocessed with no analysis; and the batch run that follows selects
\* exactly the Unprocessed items.
C21_InterruptedBatchResumes ==
    /\ [](\A i \in 1..Len(store) :
             TerminalWithAnalysis(store[i]) \/ UnprocessedWithout(store[i]))
    /\ [][IsInterruption(1) => store' = store]_vars
    /\ [][IsBatchStart(1) => ExactlyUnprocessed(articles'[1], store)]_vars

\* C21, with the selection that may fail: the batch run that follows
\* selects exactly the Unprocessed items when its SELECT runs, and nothing
\* when its SELECT raises.
C21_InterruptedBatchResumesIfSelected ==
    /\ [](\A i \in 1..Len(store) :
             TerminalWithAnalysis(store[i]) \/ UnprocessedWithout(store[i]))
    /\ [][IsInterruption(1) => store' = store]_vars
    /\ [][IsBatchStart(1) =>
              /\ selected'[1] = "ok" => ExactlyUnprocessed(articles'[1], store)
              /\ selected'[1] = "error" => articles'[1] = <<>>]_vars

\* After an interrupted batch that had updated the first of two items, the
\* next batch has selected the second one alone.
C21_Witness ==
    /\ interrupted[1]
    /\ ppc[1] = "stage1"
    /\ selected[1] = "ok"
    /\ Len(store) = 2
    /\ store[1].isProcessed # 0
    /\ store[2].isProcessed = 0
    /\ articles[1] = <<2>>

\* The step is the update of the item that processor p works on.
IsUpdateStep(p) == ppc[p] = "update" /\ ppc'[p] = "next"

\* C22: the update of an item by the pipeline changes nothing but the
\* state and the analysis of that item: its title, url, fingerprint,
\* publishedAt, raw and clean content and its place in the table stay, and
\* so does every other item.
C22_UpdateChangesStateAndAnalysisOnly ==
    [][IsUpdateStep(1) =>
          /\ Len(store') = Len(store)
          /\ \A i \in 1..Len(store) :
                 /\ i # articles[1][pidx[1]] => store'[i] = store[i]
                 /\ store'[i].title = store[i].title
                 /\ store'[i].url = store[i].url
                 /\ store'[i].hash_id = store[i].hash_id
                 /\ store'[i].actual_datetime = store[i].actual_datetime
                 /\ store'[i].content = store[i].content
                 /\ store'[i].clean_content = store[i].clean_content]_vars

\* The first of two stored items was updated to Relevant; the second one is
\* as it was stored.
C22_Witness ==
    /\ ppc[1] = "next"
    /\ updated[1] = "ok"
    /\ Len(store) = 2
    /\ articles[1][pidx[1]] = 1
    /\ store[1].isProcessed = 1
    /\ store[1].clean_content = "clean"
    /\ UnprocessedWithout(store[2])

(***************************************************************************)
(* Properties that compare the two datetime recoveries.                    *)
(***************************************************************************)
\* C23: the recovery applied to the text of an article page and the
\* recovery applied to the text of a listing row are one function: what
\* either returned on a text is what the other returns on it, a timestamp
\* or none.
C23_PageRecoveryIsRowRecovery ==
    fnResult # <<>> =>
        /\ fnResult[1] = "row" => fnResult[2] = ExtractDatetimeFromArticlePage(fnArg)
        /\ fnResult[1] = "page" => fnResult[2] = ExtractActualDatetimeFromRow(fnArg)


\* C24: the runner never has two script runs in flight: a processor run
\* starts only when the scraper run of the cycle has ended, a cycle starts
\* only when no run is in flight, and whenever no run is in flight
\* scraper_running and processor_running are both false, also after a run
\* that failed or timed out.
C24_OneRunAtATime ==
    /\ Cardinality(inflight) <= 1
    /\ rpc = "processor" => inflight = {"processor"}
    /\ rpc = "scraper" => inflight = {"scraper"}
    /\ rpc \in {"cycle", "stopped"} => inflight = {}
    /\ inflight = {} => ~scraper_running /\ ~processor_running

\* A second cycle of the PostgreSQL runner starts its processor after both
\* runs of the first cycle timed out.
C24_Witness ==
    /\ variant = "postgres"
    /\ rpc = "processor"
    /\ now > ScriptTimeout + ScraperPause + ScriptTimeout + CycleSleep
    /\ last_processor_run < 0
    /\ processor_running /\ ~scraper_running

\* C25: a delay lies between every two successive stages of an item: of
\* the model calls and delays made for an item, two successive entries
\* that are both model calls belong to the same stage.
C25_DelayBetweenStages ==
    \A p \in Procs : \A i \in 1..(Len(calls[p]) - 1) :
        (calls[p][i] # "sleep" /\ calls[p][i + 1] # "sleep")
            => calls[p][i] = calls[p][i + 1]

\* The first selector of the list that matches an element of the page.
FirstMatch(elems) == Least({k \in 1..Len(elems) : elems[k] # NoElement})

\* C26: the first selector that matches an element decides: the content
\* the selectors leave is the scan of the element of the first selector
\* that matches, whatever later selectors match.
C26_FirstMatchDecides ==
    (/\ fnResult # <<>>
     /\ fnResult[1] = "content"
     /\ \E k \in 1..Len(content_selectors) : fnArg.elems[k] # NoElement)
        => fnResult[3] = JoinLines(MainArticleLines(fnArg.elems[FirstMatch(fnArg.elems)][1]))

\* The part of the page before its first line that holds a response
\* indicator of the scan of an element.
BeforeIndicator(lines) ==
    SubSeq(lines, 1,
           Least({i \in 1..Len(lines) : AnyIn(Strip(lines[i]), ResponseIndicators)}
                 \cup {Len(lines) + 1}) - 1)

\* C27: when the selectors leave fewer than 200 characters the whole page
\* is scanned, and a line that holds any response indicator of the scan of
\* an element ends the collection: the content is what the scan collects
\* from the lines before the first such line.
C27_FallbackStopsAtEveryIndicator ==
    (/\ fnResult # <<>>
     /\ fnResult[1] = "content"
     /\ NeedsFallback(fnResult[3]))
        => fnResult[2] = JoinLines(MainContentLines(BeforeIndicator(AllText(fnArg))))

\* C28: every row an ingestion cycle adds to the store carries a timestamp,
\* and that timestamp is at most 86400 seconds old at the time of the
\* cycle, also when it was recovered from the article page.
C28_PersistedItemsAreFresh ==
    [][Len(store') > Len(store)
          => AtMostOneDayOld(store'[Len(store')].actual_datetime)]_vars

\* C29: when two batch runs overlap, an update that runs writes the state
\* and the analysis its own run computed into the item, whatever state the
\* item is in by then: the update of the later run overwrites what the
\* earlier run wrote.
C29_LaterUpdateOverwrites ==
    [][\A p \in Procs :
          (IsUpdateStep(p) /\ updated'[p] = "ok") =>
              /\ store'[articles[p][pidx[p]]].isProcessed =
                     (IF pipe[p].is_relevant THEN 1 ELSE 2)
              /\ store'[articles[p][pidx[p]]].process_data =
                     JsonDumps(AnalysisResult(pipe[p]))]_vars

\* Both runs selected the item and ran it through the pipeline; the first
\* found it relevant and wrote Relevant, the second found it not relevant
\* and its update, the later one, left NotRelevant and its own analysis.
C29_Witness ==
    /\ ppc[1] = "next" /\ ppc[2] = "next"
    /\ updated[1] = "ok" /\ updated[2] = "ok"
    /\ articles[1] = <<1>> /\ articles[2] = <<1>>
    /\ pipe[1].is_relevant /\ ~pipe[2].is_relevant
    /\ Len(calls[1]) > 1 /\ calls[2] = <<"relevance">>
    /\ store[1].isProcessed = 2
    /\ store[1].process_data = JsonDumps(AnalysisResult(pipe[2]))

\* The step is an update by processor p that raised.
IsFailedUpdate(p) == IsUpdateStep(p) /\ updated'[p] = "error"

\* The ids are among those the selection returned.
AllSelected(ids, found) == \A id \in ids : \E k \in 1..Len(found) : found[k] = id

\* C30: an update that fails is absorbed: the store stays as it is, the
\* item stays Unprocessed with no analysis, the batch goes on to the next
\* item as after an update that ran, and the next batch run selects the
\* item again.
C30_FailedUpdateRetriedNextRun ==
    /\ [][IsFailedUpdate(1) =>
              /\ store' = store
              /\ UnprocessedWithout(store'[articles[1][pidx[1]]])
              /\ ppc'[1] = "next"]_vars
    /\ [][IsBatchStart(1) => AllSelected(unsaved[1], articles'[1])]_vars

\* C30, with the selection that may fail: the next batch run selects the
\* item again when its SELECT runs, and selects nothing when its SELECT
\* raises.
C30_FailedUpdateRetriedIfSelected ==
    /\ [][IsFailedUpdate(1) =>
              /\ store' = store
              /\ UnprocessedWithout(store'[articles[1][pidx[1]]])
              /\ ppc'[1] = "next"]_vars
    /\ [][IsBatchStart(1) =>
              /\ selected'[1] = "ok" => AllSelected(unsaved[1], articles'[1])
              /\ selected'[1] = "error" => articles'[1] = <<>>]_vars

\* A batch run works again on the item whose update raised in an earlier
\* run; the item is still Unprocessed with no analysis.
C30_Witness ==
    /\ ppc[1] = "stage1"
    /\ selected[1] = "ok"
    /\ articles[1][pidx[1]] \in unsaved[1]
    /\ UnprocessedWithout(store[articles[1][pidx[1]]])
====
